---------------------------- MODULE Spec2Model ----------------------------
(***************************************************************************)
(* A model of the name-normalisation and alignment code of                 *)
(* paranames/analysis/script_analysis.py.                                  *)
(*                                                                         *)
(* Python strings are sequences of one-character strings, so that split,   *)
(* strip, find, join and the regular expression of ParenthesisRemover act  *)
(* on characters as they do in the source.                                 *)
(*                                                                         *)
(* The module holds several specifications over one set of variables; a    *)
(* specification leaves the variables of the other components untouched.   *)
(***************************************************************************)
EXTENDS Integers, Sequences, FiniteSets, TLC

VARIABLES
    al_input,      \* the links the aligner emitted for one name (environment)
    alignment,     \* the Alignment object: alignment_str, n_cross_alignments
    al_pc,         \* "new" before __attrs_post_init__, then "done" or "raised"
    loaded,        \* the name as TransliteratedNameLoader built it from its row
    processor,     \* the NameProcessor class under consideration
    uroman_tool,   \* how the external romanizer renders a line (environment)
    arg,           \* per inplace flag: the name object passed to the last call
    ret,           \* per inplace flag: the name object the last call returned
    before,        \* per inplace flag: the value of arg when the call was made
    romanized,     \* per inplace flag: the romanizer's line used by the call
    n_calls,       \* per inplace flag: calls made so far
    adapter,       \* the adapter under consideration: "uroman" or "fast_align"
    tool,          \* what the external program does when run (environment)
    strings,       \* the argument of UniversalRomanizer.call
    uroman_output, \* what UniversalRomanizer.call returned, if it returned
    names,         \* the argument of FastAligner.__call__: the name objects
    alignments,    \* what FastAligner.__call__ returned, if it returned
    preserve_raw_output, \* the flag of the FastAligner
    tmp_files,     \* the temporary files that exist, with their lines
    call_pc,       \* "idle", "returned", or the exception that ended the call
    an_memo,       \* whether the analyzer methods carry lru_cache
    an_cfg,        \* the settings of the two UnicodeAnalyzer objects
    an_word,       \* the string the analyzers are asked about
    an_cache,      \* per method: the entries of its lru_cache
    an_ret,        \* the last call of an analyzer method and what it returned
    tg_name,       \* the name given to the ensemble of taggers
    tg_taggers,    \* the taggers of the AggregatedTagger, in order
    tg_env,        \* what the data of the language slice gave the taggers
    tg_method,     \* the aggregation_method
    tg_votes,      \* what each tagger's classify returned for the name
    tg_tagged,     \* the name the AggregatedTagger returned, if it was called
    co_names,      \* Corpus.names
    co_alignments, \* Corpus.alignments
    co_split,      \* what the last call of Corpus.split_names returned
    co_stats,      \* Corpus.stats, once compute_stats has run
    co_read,       \* the last read of the statistics of an entry
    du_lines,      \* the lines of the dump file after its first two bytes
    du_pos,        \* the number of lines read so far
    du_yielded,    \* the documents WikidataDump.__iter__ has yielded
    n_decode_errors, \* WikidataDump.n_decode_errors
    du_records,    \* the WikidataRecord objects the reader has built
    num_records,   \* --num-records of wikidata_stream.main
    n_dumped,      \* n_dumped of wikidata_stream.main
    du_pc,         \* "reading", "done", or the exception that ended the run
    pm_strings,    \* the list handed to call_parallel
    chunksize,     \* UniversalRomanizer.chunksize
    num_workers,   \* UniversalRomanizer.num_workers
    pm_launch,     \* whether the uroman command can be started
    pm_next,       \* the index of the next chunk the pool hands to a worker
    pm_running,    \* the chunks workers are romanizing
    pm_finished,   \* the chunks done, in the order they were finished
    pm_outputs,    \* what self.call gave for each chunk done
    pm_ret,        \* what call_parallel returned
    pm_pc,         \* "pending", "returned" or the exception
    cb_input,      \* the names passed to Corpus(names=...), as they were
    cb_flags,      \* the settings of the Corpus that the stages read
    cb_names,      \* Corpus.names
    cb_stage,      \* the place of __attrs_post_init__ in its list of stages
    cb_block,      \* Corpus.most_common_unicode_block, once set
    cb_alignments, \* Corpus.alignments, once set
    cb_stats,      \* Corpus.stats, once set
    cb_pc,         \* "building", "done", or the exception that ended construction
    vm_names,      \* corpus.names of the language slice
    vm_env,        \* what the corpus of the slice gave the taggers
    noisy_votes,   \* the vote matrix, once built
    ig_lines,      \* the lines of the input file of the ingest workers
    ig_workers,    \* the WikidataMongoIngesterWorker objects, by number
    ig_read,       \* per worker: the number of lines its loop has taken
    ig_db,         \* the collection: what insert_many has put, with the inserting worker
    ig_pc,         \* per worker: "running", "done", or the exception that ended it
    ts_strip,      \* the strip argument of tag_and_split_names
    ts_texts,      \* the alias column of the language slice
    ts_names,      \* subset_names, once the loader has run
    ts_expected    \* the most common block and the prototype given to the taggers

alignVars == <<al_input, alignment, al_pc>>

nameVars == <<loaded, processor, uroman_tool, arg, ret, before, romanized, n_calls>>

toolVars == <<adapter, tool, strings, uroman_output, names, alignments,
              preserve_raw_output, tmp_files, call_pc>>

analyzerVars == <<an_memo, an_cfg, an_word, an_cache, an_ret>>

taggerVars == <<tg_name, tg_taggers, tg_env, tg_method, tg_votes, tg_tagged>>

corpusVars == <<co_names, co_alignments, co_split, co_stats, co_read>>

dumpVars ==
    <<du_lines, du_pos, du_yielded, n_decode_errors, du_records, num_records,
      n_dumped, du_pc>>

parallelVars ==
    <<pm_strings, chunksize, num_workers, pm_launch, pm_next, pm_running,
      pm_finished, pm_outputs, pm_ret, pm_pc>>

buildVars ==
    <<cb_input, cb_flags, cb_names, cb_stage, cb_block, cb_alignments,
      cb_stats, cb_pc>>

voteVars ==
    <<vm_names, vm_env, noisy_votes>>

ingestVars ==
    <<ig_lines, ig_workers, ig_read, ig_db, ig_pc>>

sliceVars ==
    <<ts_strip, ts_texts, ts_names, ts_expected>>

vars == <<alignVars, nameVars, toolVars, analyzerVars, taggerVars, corpusVars,
          dumpVars, parallelVars, buildVars, voteVars, ingestVars,
          sliceVars>>

(***************************************************************************)
(* Bounds of the model.                                                    *)
(***************************************************************************)
MaxLinks == 3
MaxIdx == 2
MaxTextLen == 4
MaxTokens == 5
MaxCalls == 2
MaxStrings == 2

(***************************************************************************)
(* Python string helpers.                                                  *)
(***************************************************************************)
\* Optional values: None is the empty tuple, a value x is <<x>>
None == <<>>

Some(x) == <<x>>

Whitespace == {" ", "\n", "\t"}

Max2(a, b) == IF a >= b THEN a ELSE b

\* str.find(c): the 0-based index of the first c, or -1
RECURSIVE FindFrom(_, _, _)
FindFrom(s, c, i) ==
    IF i > Len(s) THEN -1
    ELSE IF s[i] = c THEN i - 1
    ELSE FindFrom(s, c, i + 1)

Find(s, c) == FindFrom(s, c, 1)

\* s[a:b] with 0-based a, b already within 0..len(s)
Slice(s, a, b) == SubSeq(s, a + 1, b)

\* str.lstrip(chars) / str.rstrip(chars) / str.strip(chars)
RECURSIVE LStripChars(_, _)
LStripChars(s, cs) ==
    IF s # <<>> /\ Head(s) \in cs THEN LStripChars(Tail(s), cs) ELSE s

RECURSIVE RStripChars(_, _)
RStripChars(s, cs) ==
    IF s # <<>> /\ s[Len(s)] \in cs
    THEN RStripChars(SubSeq(s, 1, Len(s) - 1), cs)
    ELSE s

StripChars(s, cs) == RStripChars(LStripChars(s, cs), cs)

\* str.strip()
Strip(s) == StripChars(s, Whitespace)

\* str.split(sep) with a one-character separator: empty pieces are kept
RECURSIVE SplitOn(_, _)
SplitOn(s, c) ==
    LET i == Find(s, c)
    IN IF i = -1 THEN <<s>>
       ELSE <<Slice(s, 0, i)>> \o SplitOn(Slice(s, i + 1, Len(s)), c)

\* str.split(): pieces between runs of whitespace, no empty piece
RECURSIVE SplitWsFrom(_, _)
SplitWsFrom(s, cur) ==
    IF s = <<>> THEN (IF cur = <<>> THEN <<>> ELSE <<cur>>)
    ELSE IF Head(s) \in Whitespace
         THEN (IF cur = <<>> THEN <<>> ELSE <<cur>>) \o SplitWsFrom(Tail(s), <<>>)
         ELSE SplitWsFrom(Tail(s), Append(cur, Head(s)))

SplitWs(s) == SplitWsFrom(s, <<>>)

\* sep.join(parts)
RECURSIVE Join(_, _)
Join(parts, sep) ==
    IF parts = <<>> THEN <<>>
    ELSE IF Len(parts) = 1 THEN parts[1]
    ELSE parts[1] \o sep \o Join(Tail(parts), sep)

\* str.replace(a, b) for one-character a and b
Replace(s, a, b) == [i \in 1..Len(s) |-> IF s[i] = a THEN b ELSE s[i]]

Digits == <<"0", "1", "2", "3", "4", "5", "6", "7", "8", "9">>

DigitSet == {Digits[i] : i \in 1..Len(Digits)}

DigitVal(c) == (CHOOSE i \in 1..Len(Digits) : Digits[i] = c) - 1

\* int(x) succeeds (inputs here carry no sign, underscore or padding)
IsInt(x) == x # <<>> /\ \A i \in 1..Len(x) : x[i] \in DigitSet

RECURSIVE IntOf(_)
IntOf(x) ==
    IF x = <<>> THEN 0
    ELSE 10 * IntOf(SubSeq(x, 1, Len(x) - 1)) + DigitVal(x[Len(x)])

\* str(n) for n >= 0
RECURSIVE StrOfInt(_)
StrOfInt(n) ==
    IF n < 10 THEN <<Digits[n + 1]>>
    ELSE StrOfInt(n \div 10) \o <<Digits[(n % 10) + 1]>>

(***************************************************************************)
(* Alignment (script_analysis.py, class Alignment).                        *)
(***************************************************************************)

\* one output line of the aligner: "i-j i-j ..." for a list of links
FormatLinks(links) ==
    Join([k \in 1..Len(links) |->
            StrOfInt(links[k][1]) \o <<"-">> \o StrOfInt(links[k][2])], <<" ">>)

\* tuple([int(x) for x in at.split("-")]) is defined for this token
TokenParses(at) == \A k \in 1..Len(SplitOn(at, "-")) : IsInt(SplitOn(at, "-")[k])

ParseToken(at) ==
    LET parts == SplitOn(at, "-") IN [k \in 1..Len(parts) |-> IntOf(parts[k])]

\* sorted(tuples, key=lambda t: t[0]): stable insertion by first component
RECURSIVE InsertByKey(_, _)
InsertByKey(sorted, t) ==
    IF sorted = <<>> THEN <<t>>
    ELSE IF sorted[Len(sorted)][1] <= t[1] THEN Append(sorted, t)
    ELSE Append(InsertByKey(SubSeq(sorted, 1, Len(sorted) - 1), t),
                sorted[Len(sorted)])

RECURSIVE SortByKey(_)
SortByKey(ts) ==
    IF ts = <<>> THEN <<>>
    ELSE InsertByKey(SortByKey(SubSeq(ts, 1, Len(ts) - 1)), ts[Len(ts)])

\* the scan with max_tgt_seen overwritten by the last target seen
RECURSIVE ScanTokensLast(_, _, _, _)
ScanTokensLast(toks, i, n_cross, max_tgt_seen) ==
    IF i > Len(toks) THEN n_cross
    ELSE IF Len(toks[i]) # 2 THEN ScanTokensLast(toks, i + 1, n_cross, max_tgt_seen)
    ELSE ScanTokensLast(toks, i + 1,
                        IF toks[i][2] < max_tgt_seen THEN n_cross + 1 ELSE n_cross,
                        toks[i][2])

\* the for loop of compute_cross_alignments from token i on; a tuple that
\* does not unpack into (source, target) is skipped by the bare except
RECURSIVE ScanTokens(_, _, _, _)
ScanTokens(toks, i, n_cross, max_tgt_seen) ==
    IF i > Len(toks) THEN n_cross
    ELSE IF Len(toks[i]) # 2 THEN ScanTokens(toks, i + 1, n_cross, max_tgt_seen)
    ELSE LET target == toks[i][2]
         IN ScanTokens(toks, i + 1,
                       IF target < max_tgt_seen THEN n_cross + 1 ELSE n_cross,
                       Max2(max_tgt_seen, target))

\* the scan over the tokens in the order of the line, without sorted()
ScanUnsorted(alignment_str) ==
    LET ats == SplitOn(alignment_str, " ")
    IN ScanTokens([k \in 1..Len(ats) |-> ParseToken(ats[k])], 1, 0, 0)

compute_cross_alignments(alignment_str) ==
    LET ats == SplitOn(alignment_str, " ")
    IN ScanTokens(SortByKey([k \in 1..Len(ats) |-> ParseToken(ats[k])]), 1, 0, 0)

\* int() raises ValueError inside the list comprehension, outside the try
ComputeRaises(alignment_str) ==
    \E k \in 1..Len(SplitOn(alignment_str, " ")) :
        ~TokenParses(SplitOn(alignment_str, " ")[k])

LinkLists ==
    UNION {[1..n -> (0..MaxIdx) \X (0..MaxIdx)] : n \in 0..MaxLinks}

\* lines that are not a list of "i-j" links: a three-part token, a one-part
\* token, a doubled space
MalformedLines ==
    { <<"0", "-", "1", "-", "2", " ", "1", "-", "0">>,
      <<"1", " ", "0", "-", "1", " ", "1", "-", "0">>,
      <<"0", "-", "1", " ", " ", "1", "-", "0">> }

InitAlign ==
    /\ al_pc = "new"
    /\ \/ \E links \in LinkLists, pad \in {<<>>, <<"\n">>} :
            /\ al_input = [links |-> links, wellformed |-> TRUE]
            /\ alignment = [alignment_str |-> FormatLinks(links) \o pad,
                            n_cross_alignments |-> 0]
       \/ \E line \in MalformedLines :
            /\ al_input = [links |-> <<>>, wellformed |-> FALSE]
            /\ alignment = [alignment_str |-> line, n_cross_alignments |-> 0]

\* Alignment.__attrs_post_init__
AlignmentPostInit ==
    /\ al_pc = "new"
    /\ LET stripped == Strip(alignment.alignment_str)
       IN IF stripped = <<>>
          THEN /\ alignment' = [alignment EXCEPT !.alignment_str = stripped]
               /\ al_pc' = "done"
          ELSE IF ComputeRaises(stripped)
          THEN /\ alignment' = [alignment EXCEPT !.alignment_str = stripped]
               /\ al_pc' = "raised"
          ELSE /\ alignment' =
                     [alignment_str |-> stripped,
                      n_cross_alignments |-> compute_cross_alignments(stripped)]
               /\ al_pc' = "done"
    /\ UNCHANGED <<al_input, nameVars, toolVars, analyzerVars, taggerVars,
                   corpusVars, dumpVars, parallelVars, buildVars, voteVars,
                   ingestVars, sliceVars>>

NextAlign == AlignmentPostInit

(***************************************************************************)
(* TransliteratedName and the NameProcessor family.                        *)
(***************************************************************************)
Modes == {"inplace", "immutable"}

StringProcessors ==
    {"ParenthesisRemover", "PermuteFirstComma", "RemoveParenthesisPermuteComma"}

\* TransliteratedName.original_text: self._original_text or self.text
original_text(name) ==
    IF name._original_text = None \/ name._original_text = Some(<<>>)
    THEN name.text
    ELSE name._original_text[1]

\* re.sub(r"\(.*\)", "", line) on one line: "." matches no newline, the
\* match starts at the first "(" that has a ")" after it and, being greedy,
\* ends at the last ")"; nothing after the last ")" can match again
RECURSIVE LastIndexOf(_, _, _)
LastIndexOf(s, c, i) ==
    IF i = 0 THEN -1
    ELSE IF s[i] = c THEN i - 1
    ELSE LastIndexOf(s, c, i - 1)

\* the pattern made lazy and replaced once: up to the first ")"
SubParenFirstClose(line) ==
    LET open == Find(line, "(")
        rest == IF open = -1 THEN <<>> ELSE Slice(line, open + 1, Len(line))
        close == Find(rest, ")")
    IN IF open = -1 \/ close = -1 THEN line
       ELSE Slice(line, 0, open) \o Slice(rest, close + 1, Len(rest))

SubParenLine(line) ==
    LET open == Find(line, "(")
        close == LastIndexOf(line, ")", Len(line))
    IN IF open = -1 \/ close < open THEN line
       ELSE Slice(line, 0, open) \o Slice(line, close + 1, Len(line))

re_parenthesis_sub(string) ==
    LET lines == SplitOn(string, "\n")
    IN Join([k \in 1..Len(lines) |-> SubParenLine(lines[k])], <<"\n">>)

\* ParenthesisRemover.process
ParenthesisRemover_process(string) == Strip(re_parenthesis_sub(string))

\* the split made at the last comma (rfind) instead of the first
PermuteLastComma_process(name_text) ==
    LET comma_ix == LastIndexOf(name_text, ",", Len(name_text))
    IN IF comma_ix = -1 THEN name_text
       ELSE Strip(StripChars(Slice(name_text, comma_ix + 1, Len(name_text))
                             \o <<" ">> \o Slice(name_text, 0, comma_ix), {","}))

\* PermuteFirstComma.process
PermuteFirstComma_process(name_text) ==
    LET comma_ix == Find(name_text, ",")
    IN IF comma_ix = -1 THEN name_text
       ELSE LET head == Slice(name_text, 0, comma_ix)
                tail == Slice(name_text, comma_ix + 1, Len(name_text))
            IN Strip(StripChars(tail \o <<" ">> \o head, {","}))

\* RemoveParenthesisPermuteComma.process
RemoveParenthesisPermuteComma_process(name_text) ==
    StripChars(PermuteFirstComma_process(ParenthesisRemover_process(name_text)),
               {","})

process(p, string) ==
    CASE p = "ParenthesisRemover" -> ParenthesisRemover_process(string)
      [] p = "PermuteFirstComma" -> PermuteFirstComma_process(string)
      [] p = "RemoveParenthesisPermuteComma" ->
            RemoveParenthesisPermuteComma_process(string)

\* the body of the loop of NameProcessor._call_inplace for one name
NameProcessor_call_inplace(p, name) ==
    LET processed_name == process(p, name.text)
    IN [name EXCEPT !.is_unchanged = (name.text = processed_name),
                    !._original_text = Some(name.text),
                    !.text = processed_name]

\* the body of the loop of NameProcessor._call_immutable for one name: the
\* constructor is given neither wikidata_id nor conll_type, which take the
\* defaults of the class
NameProcessor_call_immutable(p, name) ==
    LET processed_name == process(p, name.text)
    IN [text |-> processed_name,
        is_unchanged |-> (name.text = processed_name),
        language |-> name.language,
        unicode_analyzer |-> name.unicode_analyzer,
        wikidata_id |-> "Q0",
        conll_type |-> "NONE",
        anomalous |-> name.anomalous,
        noise_sample |-> name.noise_sample,
        english_text |-> name.english_text,
        analyze_unicode |-> TRUE,
        alignment |-> name.alignment,
        _original_text |-> Some(name.text)]

(***************************************************************************)
(* PermuteLowestDistance.                                                  *)
(***************************************************************************)
length_lower_bound == 2
length_upper_bound == 4

Min3(a, b, c) == IF a <= b /\ a <= c THEN a ELSE IF b <= c THEN b ELSE c

\* editdistance.eval: Levenshtein distance, one row of the table at a time;
\* a row is kept as a sequence whose element j + 1 is the cell of column j
RECURSIVE RowCells(_, _, _, _)
RowCells(prev, c, b, cur) ==
    IF Len(cur) = Len(b) + 1 THEN cur
    ELSE LET j == Len(cur)
             substitute == prev[j] + (IF b[j] = c THEN 0 ELSE 1)
             delete == prev[j + 1] + 1
             insert == cur[j] + 1
         IN RowCells(prev, c, b, Append(cur, Min3(substitute, delete, insert)))

RECURSIVE LevRows(_, _, _, _)
LevRows(a, b, i, prev) ==
    IF i > Len(a) THEN prev[Len(b) + 1]
    ELSE LevRows(a, b, i + 1, RowCells(prev, a[i], b, <<i>>))

editdistance(a, b) == LevRows(a, b, 1, [k \in 1..(Len(b) + 1) |-> k - 1])

RemoveAt(seq, i) == SubSeq(seq, 1, i - 1) \o SubSeq(seq, i + 1, Len(seq))

RECURSIVE Factorial(_)
Factorial(n) == IF n <= 1 THEN 1 ELSE n * Factorial(n - 1)

\* the ordering of rank k (from 0) in the lexicographic order of the
\* positions of the input
RECURSIVE PermutationAt(_, _)
PermutationAt(tokens, k) ==
    IF tokens = <<>> THEN <<>>
    ELSE LET rest == Factorial(Len(tokens) - 1)
             i == (k \div rest) + 1
         IN <<tokens[i]>> \o PermutationAt(RemoveAt(tokens, i), k % rest)

\* it.permutations(tokens): every ordering, in lexicographic order of the
\* positions of the input
permutations(tokens) ==
    [k \in 1..Factorial(Len(tokens)) |-> PermutationAt(tokens, k - 1)]

JoinAll(perms) == [k \in 1..Len(perms) |-> Join(perms[k], <<" ">>)]

Min2(a, b) == IF a <= b THEN a ELSE b

\* the loop over zip(permuted, permuted_romanized) from pair k on; best is
\* [distance, name], distance -1 standing for np.inf; strip_best tells the
\* immutable variant, which keeps permutation.strip(",").strip()
RECURSIVE BestFrom(_, _, _, _, _, _)
BestFrom(permuted, permuted_romanized, english_text, k, best, strip_best) ==
    IF k > Min2(Len(permuted), Len(permuted_romanized)) THEN best
    ELSE LET ed == editdistance(permuted_romanized[k], english_text)
             kept == IF strip_best
                     THEN Strip(StripChars(permuted[k], {","}))
                     ELSE permuted[k]
             \* if ed < best_distance
             better == best.distance = -1 \/ ed < best.distance
         IN IF better
            THEN BestFrom(permuted, permuted_romanized, english_text, k + 1,
                          [distance |-> ed, name |-> kept], strip_best)
            ELSE BestFrom(permuted, permuted_romanized, english_text, k + 1,
                          best, strip_best)

\* length_lower_bound <= len(tokens) <= length_upper_bound
InRange(tokens) ==
    length_lower_bound <= Len(tokens) /\ Len(tokens) <= length_upper_bound

best_name(name, romanized_name, strip_best) ==
    BestFrom(JoinAll(permutations(SplitWs(name.text))),
             JoinAll(permutations(SplitWs(romanized_name))),
             name.english_text, 1,
             [distance |-> -1, name |-> name.text], strip_best).name

\* the body of the loop of PermuteLowestDistance._call_inplace for one name
PermuteLowestDistance_call_inplace(name, romanized_name) ==
    IF ~InRange(SplitWs(name.text)) THEN name
    ELSE LET best == best_name(name, romanized_name, FALSE)
         IN [name EXCEPT !.text = best,
                         !.is_unchanged = (best = name.text),
                         !._original_text = Some(name.text)]

\* TransliteratedName(text=best_name, ...) of _call_immutable: built
\* without wikidata_id, conll_type and alignment
PermutedCopy(name, romanized_name) ==
    LET best == best_name(name, romanized_name, TRUE)
    IN [text |-> best,
        is_unchanged |-> (best = name.text),
        language |-> name.language,
        unicode_analyzer |-> name.unicode_analyzer,
        wikidata_id |-> "Q0",
        conll_type |-> "NONE",
        anomalous |-> name.anomalous,
        noise_sample |-> name.noise_sample,
        english_text |-> name.english_text,
        analyze_unicode |-> TRUE,
        alignment |-> "None",
        _original_text |-> Some(name.text)]

\* the skipped name marked unchanged again before it is appended
PermuteLowestDistance_call_immutable_marking(name, romanized_name) ==
    IF ~InRange(SplitWs(name.text))
    THEN [name EXCEPT !.is_unchanged = TRUE]
    ELSE PermutedCopy(name, romanized_name)

\* the body of the loop of PermuteLowestDistance._call_immutable for one
\* name: a name out of range is appended itself
PermuteLowestDistance_call_immutable(name, romanized_name) ==
    IF ~InRange(SplitWs(name.text)) THEN name
    ELSE PermutedCopy(name, romanized_name)

(***************************************************************************)
(* The external romanizer, as PermuteLowestDistance sees it when the call  *)
(* succeeds: one line per name.  What the line holds is the tool's affair; *)
(* three renderings are told apart by the number of tokens they yield.     *)
(***************************************************************************)
UromanTools == {"same", "fused", "spaced"}

\* the first run of whitespace removed: one token fewer
FuseFirst(text) ==
    LET toks == SplitWs(text)
    IN IF Len(toks) < 2 THEN Join(toks, <<" ">>)
       ELSE Join(<<toks[1] \o toks[2]>> \o SubSeq(toks, 3, Len(toks)), <<" ">>)

\* the first token said once more at the end: one token more
SpaceLast(text) ==
    LET toks == SplitWs(text)
    IN IF toks = <<>> THEN <<>>
       ELSE Join(toks \o <<toks[1]>>, <<" ">>)

uroman_line(rendering, text) ==
    CASE rendering = "same" -> text
      [] rendering = "fused" -> FuseFirst(text)
      [] rendering = "spaced" -> SpaceLast(text)


\* PermuteLowestDistance.__call__ for one name, by the inplace flag
PermuteLowestDistance_call(m, name, romanized_name) ==
    IF m = "inplace"
    THEN PermuteLowestDistance_call_inplace(name, romanized_name)
    ELSE PermuteLowestDistance_call_immutable(name, romanized_name)

\* RemoveParenthesisPermuteLowestDistance.__call__ for one name: both
\* steps are built without an inplace argument and so run immutably
RemoveParenthesisPermuteLowestDistance_call(name, rendering) ==
    LET processed == NameProcessor_call_immutable("ParenthesisRemover", name)
    IN PermuteLowestDistance_call_immutable(
           processed, uroman_line(rendering, processed.text))

(***************************************************************************)
(* Names given to the processors.                                          *)
(***************************************************************************)
ParenAlphabet == {"a", " ", "(", ")", "\n"}
CommaAlphabet == {"a", "b", " ", ","}
ParenCommaAlphabet == {"a", ",", "(", ")"}

BidenJoe == <<"B", "i", "d", "e", "n", ",", " ", "J", "o", "e">>

JoeBiden == <<"J", "o", "e", " ", "B", "i", "d", "e", "n">>

TextsOver(alphabet) == UNION {[1..n -> alphabet] : n \in 0..MaxTextLen}

TokenLists == UNION {[1..n -> {<<"a">>, <<"b">>}] : n \in 0..MaxTokens}

\* "a, b"  "b a,"  "a (b)"  "b a (a)"  " a  b"  "a b (a a a)"
SpecialTexts ==
    { <<"a", ",", " ", "b">>,
      <<"b", " ", "a", ",">>,
      <<"a", " ", "(", "b", ")">>,
      <<"b", " ", "a", " ", "(", "a", ")">>,
      <<" ", "a", " ", " ", "b">>,
      <<"a", " ", "b", " ", "(", "a", " ", "a", " ", "a", ")">> }

TokenTexts == {Join(ts, <<" ">>) : ts \in TokenLists} \cup SpecialTexts

EnglishTexts == { <<"a", " ", "b">>, <<"b", " ", "a">> }

LoadedRow == [wikidata_id |-> "Q42", conll_type |-> "PER", alignment |-> "None"]

\* the fields of a row other than its texts: a row as loaded, and a row of
\* a name that has been aligned
Rows ==
    { LoadedRow,
      [wikidata_id |-> "Q0", conll_type |-> "NONE", alignment |-> "Alignment1"] }

\* TransliteratedNameLoader.load_name
load_name(text, english_text, row) ==
    [text |-> text,
     is_unchanged |-> TRUE,
     language |-> "ja",
     unicode_analyzer |-> "UnicodeAnalyzer1",
     wikidata_id |-> row.wikidata_id,
     conll_type |-> row.conll_type,
     anomalous |-> None,
     noise_sample |-> FALSE,
     english_text |-> english_text,
     analyze_unicode |-> TRUE,
     alignment |-> row.alignment,
     _original_text |-> None]

InitNamesWith(p, rendering, name) ==
    /\ loaded = name
    /\ processor = p
    /\ uroman_tool = rendering
    /\ arg = [m \in Modes |-> name]
    /\ ret = [m \in Modes |-> None]
    /\ before = [m \in Modes |-> None]
    /\ romanized = [m \in Modes |-> None]
    /\ n_calls = [m \in Modes |-> 0]

IdleNames ==
    InitNamesWith("None", "same", load_name(<<>>, <<>>, CHOOSE r \in Rows : TRUE))

InitNames ==
    \/ \E text \in TextsOver(ParenAlphabet) :
         InitNamesWith("ParenthesisRemover", "same",
                       load_name(text, <<"a">>, LoadedRow))
    \/ \E text \in TextsOver(CommaAlphabet) \cup {BidenJoe} :
         InitNamesWith("PermuteFirstComma", "same",
                       load_name(text, JoeBiden, LoadedRow))
    \/ \E text \in TextsOver(ParenCommaAlphabet) :
         InitNamesWith("RemoveParenthesisPermuteComma", "same",
                       load_name(text, <<"a">>, LoadedRow))
    \/ \E p \in {"PermuteLowestDistance", "RemoveParenthesisPermuteLowestDistance"},
          text \in TokenTexts, english_text \in EnglishTexts,
          rendering \in UromanTools, row \in Rows :
         InitNamesWith(p, rendering, load_name(text, english_text, row))

\* the name object handed to the next call: names = processor(names)
Handed(m) == IF n_calls[m] = 0 THEN arg[m] ELSE ret[m][1]

Returned(m, passed, new_arg, returned, line) ==
    /\ arg' = [arg EXCEPT ![m] = new_arg]
    /\ ret' = [ret EXCEPT ![m] = Some(returned)]
    /\ before' = [before EXCEPT ![m] = Some(passed)]
    /\ romanized' = [romanized EXCEPT ![m] = line]
    /\ n_calls' = [n_calls EXCEPT ![m] = @ + 1]
    /\ UNCHANGED <<loaded, processor, uroman_tool, alignVars, toolVars,
                   analyzerVars, taggerVars,
                   corpusVars, dumpVars, parallelVars, buildVars, voteVars,
                   ingestVars, sliceVars>>

\* NameProcessor.__call__ with inplace = True: the object is changed and
\* returned
CallInplace ==
    /\ processor \in StringProcessors
    /\ n_calls["inplace"] < MaxCalls
    /\ LET name == Handed("inplace")
           changed == NameProcessor_call_inplace(processor, name)
       IN Returned("inplace", name, changed, changed, None)

\* NameProcessor.__call__ with inplace = False: a new object is returned
CallImmutable ==
    /\ processor \in StringProcessors
    /\ n_calls["immutable"] < MaxCalls
    /\ LET name == Handed("immutable")
       IN Returned("immutable", name, name,
                   NameProcessor_call_immutable(processor, name), None)

\* PermuteLowestDistance.__call__ with inplace = True
CallPermuteInplace ==
    /\ processor = "PermuteLowestDistance"
    /\ n_calls["inplace"] < MaxCalls
    /\ LET name == Handed("inplace")
           line == uroman_line(uroman_tool, name.text)
           changed == PermuteLowestDistance_call("inplace", name, line)
       IN Returned("inplace", name, changed, changed, Some(line))

\* PermuteLowestDistance.__call__ with inplace = False
CallPermuteImmutable ==
    /\ processor = "PermuteLowestDistance"
    /\ n_calls["immutable"] < MaxCalls
    /\ LET name == Handed("immutable")
           line == uroman_line(uroman_tool, name.text)
       IN Returned("immutable", name, name,
                   PermuteLowestDistance_call("immutable", name, line),
                   Some(line))

\* RemoveParenthesisPermuteLowestDistance.__call__, whatever its own
\* inplace flag
CallRemoveParenthesisPermute(m) ==
    /\ processor = "RemoveParenthesisPermuteLowestDistance"
    /\ n_calls[m] < MaxCalls
    /\ LET name == Handed(m)
           line == uroman_line(uroman_tool,
                               ParenthesisRemover_process(name.text))
       IN Returned(m, name, name,
                   RemoveParenthesisPermuteLowestDistance_call(name, uroman_tool),
                   Some(line))

NextNames ==
    \/ CallInplace
    \/ CallImmutable
    \/ CallPermuteInplace
    \/ CallPermuteImmutable
    \/ \E m \in Modes : CallRemoveParenthesisPermute(m)

IdleAlign ==
    /\ al_pc = "idle"
    /\ al_input = [links |-> <<>>, wellformed |-> TRUE]
    /\ alignment = [alignment_str |-> <<>>, n_cross_alignments |-> 0]

(***************************************************************************)
(* The adapters of the external programs: UniversalRomanizer.call and      *)
(* FastAligner.__call__.  subprocess.run is given no check argument, so it *)
(* raises OSError when the program cannot be started and otherwise returns *)
(* whatever the exit status; CalledProcessError is never raised.           *)
(***************************************************************************)
\* the text on the program's standard output: every line ends with "\n"
RECURSIVE StdoutOf(_)
StdoutOf(lines) ==
    IF lines = <<>> THEN <<>>
    ELSE Head(lines) \o <<"\n">> \o StdoutOf(Tail(lines))

\* [x for a, x in zip(xs, ys)]: as many as the shorter of the two
ZipSecond(xs, ys) == SubSeq(ys, 1, Min2(Len(xs), Len(ys)))

\* the lines UniversalRomanizer.call keeps: one per string, as far as
\* stdout.split("\n") goes
uroman_lines(strs, stdout) == ZipSecond(strs, SplitOn(stdout, "\n"))

\* UniversalRomanizer.call: its exit, and the list it returns
UniversalRomanizer_call(strs, t) ==
    IF t.launch # "ran"
    THEN [pc |-> "ValueError", output |-> None]
    ELSE IF Len(uroman_lines(strs, StdoutOf(t.lines))) # Len(strs)
    THEN [pc |-> "AssertionError", output |-> None]
    ELSE [pc |-> "returned",
          output |-> Some(uroman_lines(strs, StdoutOf(t.lines)))]

\* Alignment(alignment_str = line)
NewAlignment(line) ==
    LET stripped == Strip(line)
    IN [alignment_str |-> stripped,
        n_cross_alignments |->
            IF stripped = <<>> THEN 0 ELSE compute_cross_alignments(stripped)]

\* one line of the training file of fast_align; "_" stands for the
\* placeholder character U+2581 that replaces the spaces
train_line(name) ==
    LET name_text == Strip(Replace(name.text, " ", "_"))
        english_text == Replace(name.english_text, " ", "_")
        spaced(x) == Join([k \in 1..Len(x) |-> <<x[k]>>], <<" ">>)
    IN spaced(name_text) \o <<" ", "|", "|", "|", " ">> \o spaced(english_text)
       \o <<"\n">>

\* FastAligner.load_alignments_from_iterable
load_alignments_from_iterable(iterable) ==
    [k \in 1..Len(iterable) |-> NewAlignment(iterable[k])]

\* the names after the loop of name.add_alignment over zip(names, alignments)
WithAlignments(ns, als) ==
    [k \in 1..Len(ns) |->
        IF k <= Len(als) THEN [ns[k] EXCEPT !.alignment = Some(als[k])]
        ELSE ns[k]]

BothFiles(ns) ==
    [alignment_train_data |-> Some([k \in 1..Len(ns) |-> train_line(ns[k])]),
     fastalign_output |-> Some(<<>>)]

NoFiles == [alignment_train_data |-> None, fastalign_output |-> None]

\* FastAligner.__call__: its exit, the list it returns, the names and the
\* temporary files it leaves
FastAligner_call(ns, t, preserve) ==
    IF t.launch # "ran"
    THEN [pc |-> "ValueError", alignments |-> None, names |-> ns,
          tmp_files |-> BothFiles(ns)]
    ELSE LET fastalign_stdout == ZipSecond(ns, SplitOn(StdoutOf(t.lines), "\n"))
             parsed == load_alignments_from_iterable(fastalign_stdout)
         IN IF \E k \in 1..Len(fastalign_stdout) :
                   ComputeRaises(Strip(fastalign_stdout[k]))
                   /\ Strip(fastalign_stdout[k]) # <<>>
            THEN [pc |-> "ValueError", alignments |-> None, names |-> ns,
                  tmp_files |-> BothFiles(ns)]
            ELSE IF Len(parsed) # Len(ns)
            THEN [pc |-> "AssertionError", alignments |-> None,
                  names |-> WithAlignments(ns, parsed),
                  tmp_files |-> BothFiles(ns)]
            ELSE [pc |-> "returned", alignments |-> Some(parsed),
                  names |-> WithAlignments(ns, parsed),
                  tmp_files |-> IF preserve THEN BothFiles(ns) ELSE NoFiles]

InputStrings == UNION {[1..n -> {<<"a">>, <<"b">>}] : n \in 0..MaxStrings}

\* what the romanizer may print: no more than one line too many
UromanLines ==
    UNION {[1..n -> {<<"a">>, <<"b">>}] : n \in 0..(MaxStrings + 1)}

\* what the aligner may print: "0-0", "0-1 1-0"
AlignerLines ==
    UNION {[1..n -> {<<"0", "-", "0">>, <<"0", "-", "1", " ", "1", "-", "0">>}]
             : n \in 0..(MaxStrings + 1)}

\* the names given to the aligner: "a b" or "ba" with english_text "a b"
AlignerNames ==
    UNION {[1..n -> {load_name(text, <<"a", " ", "b">>, LoadedRow)
                       : text \in {<<"a", " ", "b">>, <<"b", "a">>}}]
             : n \in 0..MaxStrings}

\* a program that could not be started printed nothing
Tools(lines) ==
    {[launch |-> "ran", returncode |-> rc, lines |-> ls]
        : rc \in {0, 1}, ls \in lines}
    \cup {[launch |-> l, returncode |-> -1, lines |-> <<>>]
            : l \in {"missing", "oserror"}}

InitToolsWith(a, t, strs, ns, preserve) ==
    /\ adapter = a
    /\ tool = t
    /\ strings = strs
    /\ uroman_output = None
    /\ names = ns
    /\ alignments = None
    /\ preserve_raw_output = preserve
    /\ tmp_files = NoFiles
    /\ call_pc = "idle"

IdleTools ==
    InitToolsWith("None", [launch |-> "ran", returncode |-> 0, lines |-> <<>>],
                  <<>>, <<>>, FALSE)

InitTools ==
    \/ \E strs \in InputStrings, t \in Tools(UromanLines) :
         InitToolsWith("uroman", t, strs, <<>>, FALSE)
    \/ \E ns \in AlignerNames, t \in Tools(AlignerLines), preserve \in BOOLEAN :
         InitToolsWith("fast_align", t, <<>>, ns, preserve)

\* UniversalRomanizer.call(strings)
UromanCall ==
    /\ adapter = "uroman"
    /\ call_pc = "idle"
    /\ LET r == UniversalRomanizer_call(strings, tool)
       IN /\ call_pc' = r.pc
          /\ uroman_output' = r.output
    /\ UNCHANGED <<adapter, tool, strings, names, alignments,
                   preserve_raw_output, tmp_files, alignVars, nameVars,
                   analyzerVars, taggerVars,
                   corpusVars, dumpVars, parallelVars, buildVars, voteVars,
                   ingestVars, sliceVars>>

\* FastAligner.__call__(names)
FastAlignerCall ==
    /\ adapter = "fast_align"
    /\ call_pc = "idle"
    /\ LET r == FastAligner_call(names, tool, preserve_raw_output)
       IN /\ call_pc' = r.pc
          /\ alignments' = r.alignments
          /\ names' = r.names
          /\ tmp_files' = r.tmp_files
    /\ UNCHANGED <<adapter, tool, strings, uroman_output,
                   preserve_raw_output, alignVars, nameVars, analyzerVars,
                   taggerVars, corpusVars, dumpVars, parallelVars, buildVars,
                   voteVars, ingestVars, sliceVars>>

NextTools == UromanCall \/ FastAlignerCall

(***************************************************************************)
(* UnicodeAnalyzer.  A character is written as itself or as its code       *)
(* point; a Counter is the sequence of its items in insertion order, each  *)
(* value a fraction num / den (den = 1 for a count).                        *)
(***************************************************************************)
MaxWordLen == 2

\* "a", "1", ",", " ", HIRAGANA LETTER A, and a code point in no block;
\* the names given to the taggers also have KATAKANA LETTER A (U+30A2) and
\* the ideograph U+4E2D
AnalyzerChars == {"a", "1", ",", " ", "U+3042", "unassigned"}

\* unicodeblock.blocks.of(c): None for a code point outside every block
blocks_of(c) ==
    CASE c \in {"a", "b", "(", ")"} -> Some("BASIC_LATIN")
      [] c = "1" -> Some("DIGIT")
      [] c = "," -> Some("BASIC_PUNCTUATION")
      [] c = " " -> Some("SPACE")
      [] c = "U+3042" -> Some("HIRAGANA")
      [] c = "U+30A2" -> Some("KATAKANA")
      [] c = "U+4E2D" -> Some("CJK_UNIFIED_IDEOGRAPHS")
      [] OTHER -> None

\* unicodedata.category(c)
ud_category(c) ==
    CASE c \in {"a", "b"} -> <<"L", "l">>
      [] c = "(" -> <<"P", "s">>
      [] c = ")" -> <<"P", "e">>
      [] c = "1" -> <<"N", "d">>
      [] c = "," -> <<"P", "o">>
      [] c = " " -> <<"Z", "s">>
      [] c \in {"U+3042", "U+30A2", "U+4E2D"} -> <<"L", "o">>
      [] OTHER -> <<"C", "n">>

is_punctuation(s) == ud_category(s)[1] = "P" \/ ud_category(s)[1] = "S"

is_number(c) == ud_category(c)[1] = "N"

maybe_strip(self, word) == IF self.strip THEN Strip(word) ELSE word

\* the character is counted by unicode_blocks
Counted(self, c) ==
    /\ blocks_of(c) # None
    /\ self.ignore_punctuation => ~is_punctuation(c)
    /\ self.ignore_numbers => ~is_number(c)

KeyIndex(counter, key) ==
    IF \E k \in 1..Len(counter) : counter[k].key = key
    THEN CHOOSE k \in 1..Len(counter) : counter[k].key = key
    ELSE 0

\* Counter(iterable): one more for the key, a new key going last
RECURSIVE CounterOf(_, _)
CounterOf(keys, counter) ==
    IF keys = <<>> THEN counter
    ELSE LET k == KeyIndex(counter, Head(keys))
             counted ==
                 IF k = 0
                 THEN Append(counter, [key |-> Head(keys), num |-> 1, den |-> 1])
                 ELSE [counter EXCEPT ![k].num = @ + 1]
         IN CounterOf(Tail(keys), counted)

\* UnicodeAnalyzer.unicode_blocks, the undecorated method
unicode_blocks(self, word) ==
    LET chars == SelectSeq(maybe_strip(self, word), LAMBDA c : Counted(self, c))
    IN CounterOf([k \in 1..Len(chars) |-> blocks_of(chars[k])[1]], <<>>)

\* a.num / a.den > b.num / b.den
Greater(a, b) == a.num * b.den > b.num * a.den

\* Counter.most_common(1): the first item, in insertion order, of greatest
\* value; no item for an empty Counter
most_common_1(counter) ==
    IF counter = <<>> THEN <<>>
    ELSE LET k == CHOOSE k \in 1..Len(counter) :
                     /\ \A j \in 1..Len(counter) : ~Greater(counter[j], counter[k])
                     /\ \A j \in 1..(k - 1) : Greater(counter[k], counter[j])
         IN <<counter[k]>>

\* the body of most_common_unicode_block on the Counter unicode_blocks gave:
\* IndexError is caught and gives ""
most_common_block_of(counter) ==
    IF most_common_1(counter) = <<>> THEN ""
    ELSE most_common_1(counter)[1].key

RECURSIVE SumNum(_)
SumNum(counter) ==
    IF counter = <<>> THEN 0 ELSE Head(counter).num + SumNum(Tail(counter))

\* every value divided by the greatest of them
normalized_by_greatest(counter) ==
    [k \in 1..Len(counter) |->
        [counter[k] EXCEPT !.den = most_common_1(counter)[1].num]]

\* the loop of unicode_block_histogram: histogram[block] = count / total,
\* run on the object unicode_blocks returned; the values of one Counter
\* share their denominator
normalized(counter) ==
    [k \in 1..Len(counter) |-> [counter[k] EXCEPT !.den = SumNum(counter)]]

\* the Counter unicode_block_histogram returns, given the one unicode_blocks
\* returned; count / total raises ZeroDivisionError when total is 0
histogram_of(self, counter) ==
    IF ~self.normalize_histogram THEN [pc |-> "returned", value |-> counter]
    ELSE IF counter # <<>> /\ SumNum(counter) = 0
    THEN [pc |-> "ZeroDivisionError", value |-> counter]
    ELSE [pc |-> "returned", value |-> normalized(counter)]

\* the settings an analyzer can be built with
AnalyzerConfigs ==
    [strip : BOOLEAN, ignore_punctuation : BOOLEAN, ignore_numbers : BOOLEAN,
     normalize_histogram : BOOLEAN]

\* UnicodeAnalyzer(): the defaults of __init__
DefaultAnalyzer ==
    [strip |-> FALSE, ignore_punctuation |-> FALSE, ignore_numbers |-> FALSE,
     normalize_histogram |-> TRUE]

AnalyzerWords == UNION {[1..n -> AnalyzerChars] : n \in 0..MaxWordLen}

Methods ==
    {"unicode_blocks", "most_common_unicode_block", "unicode_block_histogram"}

\* one cache for all objects: the key is the word alone
CacheGetByWord(entries, self, word) == {e \in entries : e.word = word}

\* lru_cache of a method: the key is (self, word), and self, an object of a
\* class without __eq__ or __hash__, is equal to itself only
CacheGet(entries, self, word) ==
    {e \in entries : e.self = self /\ e.word = word}

\* self.unicode_blocks(word) through its lru_cache (when decorated): the
\* Counter returned, the cache afterwards, the entry holding the Counter,
\* and on a hit the analyzer whose call made the entry
unicode_blocks_call(cache, self, word) ==
    LET hit == CacheGet(cache.unicode_blocks, self, word)
        entry == [self |-> self, word |-> word,
                  value |-> unicode_blocks(an_cfg[self], word)]
    IN IF an_memo /\ hit # {}
       THEN [value |-> (CHOOSE e \in hit : TRUE).value, cache |-> cache,
             entry |-> CHOOSE e \in hit : TRUE,
             hit |-> Some((CHOOSE e \in hit : TRUE).self)]
       ELSE [value |-> entry.value,
             cache |-> IF an_memo
                       THEN [cache EXCEPT !.unicode_blocks = @ \cup {entry}]
                       ELSE cache,
             entry |-> entry, hit |-> None]

\* self.most_common_unicode_block(word)
most_common_unicode_block_call(cache, self, word) ==
    LET hit == CacheGet(cache.most_common_unicode_block, self, word)
        inner == unicode_blocks_call(cache, self, word)
        entry == [self |-> self, word |-> word,
                  value |-> most_common_block_of(inner.value)]
    IN IF an_memo /\ hit # {}
       THEN [pc |-> "returned", value |-> (CHOOSE e \in hit : TRUE).value,
             cache |-> cache, hit |-> Some((CHOOSE e \in hit : TRUE).self)]
       ELSE [pc |-> "returned", value |-> entry.value,
             cache |-> IF an_memo
                       THEN [inner.cache EXCEPT
                                !.most_common_unicode_block = @ \cup {entry}]
                       ELSE cache,
             hit |-> None]

\* self.unicode_block_histogram(word): the Counter that unicode_blocks
\* returned is changed in place, so an entry of the cache of unicode_blocks
\* that holds it changes with it
unicode_block_histogram_call(cache, self, word) ==
    LET hit == CacheGet(cache.unicode_block_histogram, self, word)
        inner == unicode_blocks_call(cache, self, word)
        histogram == histogram_of(an_cfg[self], inner.value)
        entry == [self |-> self, word |-> word, value |-> histogram.value]
    IN IF an_memo /\ hit # {}
       THEN [pc |-> "returned", value |-> (CHOOSE e \in hit : TRUE).value,
             cache |-> cache, hit |-> Some((CHOOSE e \in hit : TRUE).self)]
       ELSE IF histogram.pc # "returned"
       THEN [pc |-> histogram.pc, value |-> None,
             cache |-> inner.cache, hit |-> None]
       ELSE [pc |-> "returned", value |-> histogram.value,
             cache |-> IF an_memo
                       THEN [unicode_blocks |->
                                 (inner.cache.unicode_blocks \ {inner.entry})
                                 \cup {[inner.entry EXCEPT
                                           !.value = histogram.value]},
                             most_common_unicode_block |->
                                 inner.cache.most_common_unicode_block,
                             unicode_block_histogram |->
                                 inner.cache.unicode_block_histogram
                                 \cup {entry}]
                       ELSE cache,
             hit |-> None]

NoEntries == [m \in Methods |-> {}]

InitAnalyzerWith(memo, cfg, word) ==
    /\ an_memo = memo
    /\ an_cfg = cfg
    /\ an_word = word
    /\ an_cache = NoEntries
    /\ an_ret = None

IdleAnalyzer ==
    InitAnalyzerWith(FALSE, <<DefaultAnalyzer, DefaultAnalyzer>>, <<"idle">>)

\* two analyzers, the first with the default settings, and the word they
\* are asked about; the methods are decorated or not
InitAnalyzer ==
    \E memo \in BOOLEAN, other \in AnalyzerConfigs, word \in AnalyzerWords :
        InitAnalyzerWith(memo, <<DefaultAnalyzer, other>>, word)

AnalyzerReturned(self, method, r) ==
    /\ an_cache' = r.cache
    /\ an_ret' = Some([self |-> self, method |-> method, pc |-> r.pc,
                       value |-> r.value, hit |-> r.hit])
    /\ UNCHANGED <<an_memo, an_cfg, an_word, alignVars, nameVars, toolVars,
                   taggerVars, corpusVars, dumpVars, parallelVars, buildVars,
                   voteVars, ingestVars, sliceVars>>

Asked == an_word # <<"idle">>

CallUnicodeBlocks(self) ==
    /\ Asked
    /\ LET r == unicode_blocks_call(an_cache, self, an_word)
       IN AnalyzerReturned(self, "unicode_blocks",
                           [pc |-> "returned", value |-> r.value,
                            cache |-> r.cache, hit |-> r.hit])

CallMostCommonUnicodeBlock(self) ==
    /\ Asked
    /\ AnalyzerReturned(self, "most_common_unicode_block",
                        most_common_unicode_block_call(an_cache, self, an_word))

CallUnicodeBlockHistogram(self) ==
    /\ Asked
    /\ AnalyzerReturned(self, "unicode_block_histogram",
                        unicode_block_histogram_call(an_cache, self, an_word))

NextAnalyzer ==
    \E self \in 1..2 :
        \/ CallUnicodeBlocks(self)
        \/ CallMostCommonUnicodeBlock(self)
        \/ CallUnicodeBlockHistogram(self)

(***************************************************************************)
(* The anomaly taggers and the AggregatedTagger that tag_and_split_names   *)
(* builds.  A vote is an Optional[bool]: Some(TRUE) anomalous, Some(FALSE) *)
(* not anomalous, None abstain.  A language code is the sequence of its    *)
(* characters.                                                             *)
(***************************************************************************)
MaxNameLen == 2

\* the analyzer tag_and_split_names gives to the names (strip = True)
TaggingAnalyzer ==
    [strip |-> TRUE, ignore_punctuation |-> TRUE, ignore_numbers |-> TRUE,
     normalize_histogram |-> TRUE]

\* TransliteratedName.most_common_unicode_block
name_most_common_unicode_block(name) ==
    most_common_block_of(unicode_blocks(name.unicode_analyzer, name.text))

\* TransliteratedName.unicode_block_histogram
name_unicode_block_histogram(name) ==
    histogram_of(name.unicode_analyzer,
                 unicode_blocks(name.unicode_analyzer, name.text)).value

\* block in hist
InHist(block, hist) == \E k \in 1..Len(hist) : hist[k].key = block

StartsWith(s, prefix) ==
    Len(s) >= Len(prefix) /\ SubSeq(s, 1, Len(prefix)) = prefix

\* re.compile(r"^(ja|zh-*|lzh|wuu)").match(language): the code begins with
\* "ja", with "zh" and any number of hyphens, with "lzh" or with "wuu"
re_chinese_japanese_match(language) ==
    \/ StartsWith(language, <<"j", "a">>)
    \/ \E dashes \in 0..Len(language) :
          StartsWith(language, <<"z", "h">> \o [k \in 1..dashes |-> "-"])
    \/ StartsWith(language, <<"l", "z", "h">>)
    \/ StartsWith(language, <<"w", "u", "u">>)

\* the block labels of unicodeblock that begin with "CJK"
CJKBlocks ==
    {"CJK_RADICALS_SUPPLEMENT", "CJK_SYMBOLS_AND_PUNCTUATION",
     "CJK_COMPATIBILITY", "CJK_UNIFIED_IDEOGRAPHS_EXTENSION_A",
     "CJK_UNIFIED_IDEOGRAPHS", "CJK_COMPATIBILITY_IDEOGRAPHS",
     "CJK_COMPATIBILITY_FORMS"}

\* IncorrectBlockTagger.classify
IncorrectBlockTagger_classify(name, expected_block) ==
    Some(name_most_common_unicode_block(name) # expected_block)

\* MissingBlockTagger.classify
MissingBlockTagger_classify(name, missing_block) ==
    Some(~InHist(missing_block, name_unicode_block_histogram(name)))

\* JSDTagger.classify: observed_distance >= critical_value, the distance
\* being the library's affair
JSDTagger_classify(name, distance_reaches_critical_value) ==
    Some(distance_reaches_critical_value)

\* HiraganaKatakanaTagger.classify
HiraganaKatakanaTagger_classify(name) ==
    LET hist == name_unicode_block_histogram(name)
        contains_kana == InHist("HIRAGANA", hist) \/ InHist("KATAKANA", hist)
    IN IF ~re_chinese_japanese_match(name.language) THEN None
       ELSE IF name.language # <<"j", "a">> THEN Some(contains_kana)
       ELSE Some(~contains_kana)

\* CJKTagger.classify
CJKTagger_classify(name) ==
    LET hist == name_unicode_block_histogram(name)
        contains_cjk == \E k \in 1..Len(hist) : hist[k].key \in CJKBlocks
    IN IF ~re_chinese_japanese_match(name.language) THEN None
       ELSE Some(contains_cjk)

\* the five taggers of tag_and_split_names, in the order of its list
Taggers ==
    <<"IncorrectBlockTagger", "MissingBlockTagger", "JSDTagger",
      "HiraganaKatakanaTagger", "CJKTagger">>

classify(tagger, name, env) ==
    CASE tagger = "IncorrectBlockTagger" ->
             IncorrectBlockTagger_classify(name, env.most_common_block)
      [] tagger = "MissingBlockTagger" ->
             MissingBlockTagger_classify(name, env.most_common_block)
      [] tagger = "JSDTagger" -> JSDTagger_classify(name, env.jsd_far)
      [] tagger = "HiraganaKatakanaTagger" -> HiraganaKatakanaTagger_classify(name)
      [] tagger = "CJKTagger" -> CJKTagger_classify(name)

\* the number of votes equal to v
RECURSIVE CountVotes(_, _)
CountVotes(votes, v) ==
    IF votes = <<>> THEN 0
    ELSE (IF Head(votes) = v THEN 1 ELSE 0) + CountVotes(Tail(votes), v)

\* a tie counted as anomalous
aggregate_tie_anomalous(aggregation_method, votes) ==
    LET n_anomalous == CountVotes(votes, Some(TRUE))
        n_not_anomalous == CountVotes(votes, Some(FALSE))
    IN CASE aggregation_method = "all" -> Some(n_not_anomalous = 0)
         [] aggregation_method = "any" -> Some(n_anomalous > 0)
         [] aggregation_method = "majority_vote" ->
                Some(n_anomalous >= n_not_anomalous)

\* the vote aggregation of the AggregatedTagger: abstentions are ignored
aggregate(aggregation_method, votes) ==
    LET n_anomalous == CountVotes(votes, Some(TRUE))
        n_not_anomalous == CountVotes(votes, Some(FALSE))
    IN CASE aggregation_method = "all" -> Some(n_not_anomalous = 0)
         [] aggregation_method = "any" -> Some(n_anomalous > 0)
         [] aggregation_method = "majority_vote" ->
                Some(n_anomalous > n_not_anomalous)

AggregationMethods == {"all", "any", "majority_vote"}

TaggerChars == {"a", "U+3042", "U+30A2", "U+4E2D"}

NameTexts == UNION {[1..n -> TaggerChars] : n \in 0..MaxNameLen}

\* ja, zh, zh-hans, lzh, wuu, and jam, zha, en outside the family
Languages ==
    { <<"j", "a">>, <<"z", "h">>, <<"z", "h", "-", "h", "a", "n", "s">>,
      <<"l", "z", "h">>, <<"w", "u", "u">>,
      <<"j", "a", "m">>, <<"z", "h", "a">>, <<"e", "n">> }

\* the sub-lists of a list, by the positions kept
RECURSIVE SubList(_, _, _)
SubList(seq, keep, k) ==
    IF k > Len(seq) THEN <<>>
    ELSE (IF k \in keep THEN <<seq[k]>> ELSE <<>>) \o SubList(seq, keep, k + 1)

Ensembles == {SubList(Taggers, keep, 1) : keep \in SUBSET (1..Len(Taggers))}

TaggedName(text, language) ==
    [load_name(text, <<"a">>, LoadedRow) EXCEPT
        !.language = language, !.unicode_analyzer = TaggingAnalyzer]

InitTaggersWith(name, taggers, env, method) ==
    /\ tg_name = name
    /\ tg_taggers = taggers
    /\ tg_env = env
    /\ tg_method = method
    /\ tg_votes = <<>>
    /\ tg_tagged = None

IdleTaggers ==
    InitTaggersWith(TaggedName(<<>>, <<>>), <<>>,
                    [most_common_block |-> "", jsd_far |-> FALSE], "None")

InitTaggers ==
    \E text \in NameTexts, language \in Languages, taggers \in Ensembles,
       block \in {"BASIC_LATIN", "CJK_UNIFIED_IDEOGRAPHS"}, far \in BOOLEAN,
       method \in AggregationMethods :
        InitTaggersWith(TaggedName(text, language), taggers,
                        [most_common_block |-> block, jsd_far |-> far], method)

\* aggregated_tagger(subset_names) for one name: every tagger classifies
\* the name, the votes are aggregated, and the name comes back tagged
AggregatedTaggerCall ==
    /\ tg_method \in AggregationMethods
    /\ tg_tagged = None
    /\ LET votes == [k \in 1..Len(tg_taggers) |->
                        classify(tg_taggers[k], tg_name, tg_env)]
       IN /\ tg_votes' = votes
          /\ tg_tagged' = Some([tg_name EXCEPT
                                  !.anomalous = aggregate(tg_method, votes)])
    /\ UNCHANGED <<tg_name, tg_taggers, tg_env, tg_method, alignVars, nameVars,
                   toolVars, analyzerVars, corpusVars, dumpVars,
                   parallelVars, buildVars, voteVars, ingestVars, sliceVars>>

NextTaggers == AggregatedTaggerCall

(***************************************************************************)
(* Corpus: split_names and compute_stats, on the names as they are after   *)
(* tagging and Corpus.compute_alignments (every name carries the alignment *)
(* the aligner returned for it).                                           *)
(***************************************************************************)
MaxNames == 2

\* the loop of Corpus.split_names over the names from k on
RECURSIVE SplitFrom(_, _, _, _)
SplitFrom(ns, with_noise_samples, k, split) ==
    IF k > Len(ns) THEN split
    ELSE IF ~with_noise_samples /\ ns[k].noise_sample
    THEN SplitFrom(ns, with_noise_samples, k + 1, split)
    ELSE LET tag == IF ns[k].anomalous = Some(TRUE)
                    THEN "anomalous" ELSE "non_anomalous"
             appended == [split EXCEPT ![tag] = Append(@, ns[k])]
         IN SplitFrom(ns, with_noise_samples, k + 1, appended)

EmptySplit == [tag \in {"anomalous", "non_anomalous"} |-> <<>>]

\* a name that abstained is left out
split_names_dropping_abstained(ns, with_noise_samples) ==
    SplitFrom(SelectSeq(ns, LAMBDA n : n.anomalous # None),
              with_noise_samples, 1, EmptySplit)

\* Corpus.split_names
split_names(ns, with_noise_samples) ==
    SplitFrom(ns, with_noise_samples, 1, EmptySplit)

RECURSIVE SumSeq(_)
SumSeq(xs) == IF xs = <<>> THEN 0 ELSE Head(xs) + SumSeq(Tail(xs))

\* [a.n_cross_alignments if a else 0 for a in alignments], for a list of
\* Optional alignments
CrossCounts(als) ==
    [k \in 1..Len(als) |->
        IF als[k] = None THEN 0 ELSE als[k][1].n_cross_alignments]

\* CorpusStatistics.__attrs_post_init__.  With a list of alignments both
\* comprehensions read the list; without one (None or an empty list)
\* self.alignments is a generator over the names, which the first
\* comprehension uses up.  np.mean is kept as the fraction sum / length.
CorpusStatistics(ns, als) ==
    LET is_list == als # None /\ als[1] # <<>>
        first_pass == IF is_list THEN als[1]
                      ELSE [k \in 1..Len(ns) |-> ns[k].alignment]
        second_pass == IF is_list THEN als[1] ELSE <<>>
    IN [mean_cross_alignments |->
            [num |-> SumSeq(CrossCounts(first_pass)), den |-> Len(first_pass)],
        total_cross_alignments |-> SumSeq(CrossCounts(second_pass)),
        total_permuted |-> Len(SelectSeq(ns, LAMBDA n : ~n.is_unchanged)),
        total_surviving |-> Len(SelectSeq(ns, LAMBDA n : n.is_unchanged))]

\* Corpus.compute_stats: the entry "global" and one entry per language
compute_stats(ns, als) ==
    LET languages == {ns[k].language : k \in 1..Len(ns)}
    IN [key \in {"global"} \cup languages |->
           IF key = "global"
           THEN CorpusStatistics(ns, Some([k \in 1..Len(als) |-> Some(als[k])]))
           ELSE CorpusStatistics(SelectSeq(ns, LAMBDA n : n.language = key),
                                 None)]

\* the lines the aligner printed: "0-0" and "0-1 1-0"
CorpusAlignments ==
    {NewAlignment(<<"0", "-", "0">>),
     NewAlignment(<<"0", "-", "1", " ", "1", "-", "0">>)}

CorpusName(language, anomalous, noise_sample, al) ==
    [load_name(<<"a">>, <<"a">>, LoadedRow) EXCEPT
        !.language = language, !.anomalous = anomalous,
        !.noise_sample = noise_sample, !.alignment = Some(al)]

CorpusNames ==
    {CorpusName(language, anomalous, noise_sample, al) :
        language \in {"fi", "ja"}, anomalous \in {None, Some(TRUE), Some(FALSE)},
        noise_sample \in BOOLEAN, al \in CorpusAlignments}

InitCorpusWith(ns) ==
    /\ co_names = ns
    /\ co_alignments = [k \in 1..Len(ns) |-> ns[k].alignment[1]]
    /\ co_split = None
    /\ co_stats = None
    /\ co_read = None

IdleCorpus == InitCorpusWith(<<>>)

InitCorpus ==
    \E ns \in UNION {[1..n -> CorpusNames] : n \in 1..MaxNames} :
        InitCorpusWith(ns)

Untouched ==
    <<alignVars, nameVars, toolVars, analyzerVars, taggerVars, dumpVars,
      parallelVars, buildVars, voteVars, ingestVars, sliceVars>>

\* corpus.split_names(with_noise_samples)
SplitNames(with_noise_samples) ==
    /\ co_names # <<>>
    /\ co_split' = Some([with_noise_samples |-> with_noise_samples,
                         split |-> split_names(co_names, with_noise_samples)])
    /\ UNCHANGED <<co_names, co_alignments, co_stats, co_read, Untouched>>

\* corpus.compute_stats()
ComputeStats ==
    /\ co_names # <<>>
    /\ co_stats = None
    /\ co_stats' = Some(compute_stats(co_names, co_alignments))
    /\ UNCHANGED <<co_names, co_alignments, co_split, co_read, Untouched>>

\* corpus.stats[key].mean_cross_alignments and .total_cross_alignments
ReadStats(key) ==
    /\ co_stats # None
    /\ key \in DOMAIN co_stats[1]
    /\ co_read' = Some([key |-> key,
                        mean_cross_alignments |->
                            co_stats[1][key].mean_cross_alignments,
                        total_cross_alignments |->
                            co_stats[1][key].total_cross_alignments])
    /\ UNCHANGED <<co_names, co_alignments, co_split, co_stats, Untouched>>

NextCorpus ==
    \/ \E with_noise_samples \in BOOLEAN : SplitNames(with_noise_samples)
    \/ ComputeStats
    \/ \E key \in {"global", "fi", "ja"} : ReadStats(key)

(***************************************************************************)
(* The dump reader: WikidataDump.__iter__ feeding wikidata_stream.main,    *)
(* which builds a WikidataRecord from every document it is handed.         *)
(* A line of the dump is either text that orjson cannot decode (None) or   *)
(* the text of a JSON object, given by the set of top-level fields the     *)
(* object has; a "claims" field stands for claims with a P31 statement of  *)
(* the class asked for.                                                    *)
(***************************************************************************)
MaxRows == 3

DumpFields == {"id", "labels", "claims"}

DumpLines == {None} \cup {Some(doc) : doc \in SUBSET DumpFields}

\* orjson.loads(line.rstrip(",\n")): the document, or JSONDecodeError
orjson_loads(line) ==
    IF line = None THEN [raised |-> "JSONDecodeError", doc |-> {}]
    ELSE [raised |-> "", doc |-> line[1]]

\* WikidataRecord.parse_ids: record["id"] is read outside any try
parse_ids(doc) == IF "id" \in doc THEN "" ELSE "KeyError"

\* WikidataRecord.parse_instance_of: a KeyError gives the empty set
parse_instance_of(doc) == IF "claims" \in doc THEN {"Q5"} ELSE {}

\* WikidataRecord.parse_aliases: record["labels"] is read outside any try
parse_aliases(doc) == IF "labels" \in doc THEN "" ELSE "KeyError"

\* WikidataRecord.__init__: parse_ids, parse_instance_of, parse_aliases
WikidataRecord(doc) ==
    IF parse_ids(doc) # "" \/ parse_aliases(doc) # ""
    THEN [raised |-> "KeyError", instance_ofs |-> {}]
    ELSE [raised |-> "", instance_ofs |-> parse_instance_of(doc)]

\* WikidataRecord.instance_of
instance_of(record, classes) == record.instance_ofs \cap classes # {}

InitDumpWith(lines, n, pc) ==
    /\ du_lines = lines
    /\ du_pos = 0
    /\ du_yielded = <<>>
    /\ n_decode_errors = 0
    /\ du_records = <<>>
    /\ num_records = n
    /\ n_dumped = 0
    /\ du_pc = pc

IdleDump == InitDumpWith(<<>>, 0, "idle")

\* num_records is a count, or MaxRows + 1 for the default math.inf
InitDump ==
    \E k \in 0..MaxRows : \E lines \in [1..k -> DumpLines] :
        \E n \in {1, MaxRows + 1} : InitDumpWith(lines, n, "reading")

\* one turn of `for line in f` that ends in the except clause
SkipUndecodable ==
    /\ du_pc = "reading"
    /\ du_pos < Len(du_lines)
    /\ orjson_loads(du_lines[du_pos + 1]).raised = "JSONDecodeError"
    /\ du_pos' = du_pos + 1
    /\ n_decode_errors' = n_decode_errors + 1
    /\ UNCHANGED <<du_lines, du_yielded, du_records, num_records, n_dumped,
                   du_pc>>
    /\ UNCHANGED <<alignVars, nameVars, toolVars, analyzerVars, taggerVars,
                   corpusVars, parallelVars, buildVars, voteVars, ingestVars,
                   sliceVars>>

\* one turn that yields a document, and the body of main's loop on it
YieldRecord ==
    /\ du_pc = "reading"
    /\ du_pos < Len(du_lines)
    /\ orjson_loads(du_lines[du_pos + 1]).raised = ""
    /\ LET doc == orjson_loads(du_lines[du_pos + 1]).doc
           record == WikidataRecord(doc)
       IN /\ du_pos' = du_pos + 1
          /\ du_yielded' = Append(du_yielded, doc)
          /\ IF record.raised # ""
             THEN /\ du_pc' = record.raised
                  /\ UNCHANGED <<du_records, n_dumped>>
             ELSE /\ du_records' = Append(du_records, record)
                  /\ IF n_dumped >= num_records
                     THEN du_pc' = "done" /\ UNCHANGED n_dumped
                     ELSE /\ du_pc' = "reading"
                          /\ n_dumped' = IF instance_of(record, {"Q5"})
                                         THEN n_dumped + 1 ELSE n_dumped
    /\ UNCHANGED <<du_lines, n_decode_errors, num_records>>
    /\ UNCHANGED <<alignVars, nameVars, toolVars, analyzerVars, taggerVars,
                   corpusVars, parallelVars, buildVars, voteVars, ingestVars,
                   sliceVars>>

\* the file is used up: the generator returns and main's loop ends
EndOfDump ==
    /\ du_pc = "reading"
    /\ du_pos = Len(du_lines)
    /\ du_pc' = "done"
    /\ UNCHANGED <<du_lines, du_pos, du_yielded, n_decode_errors, du_records,
                   num_records, n_dumped>>
    /\ UNCHANGED <<alignVars, nameVars, toolVars, analyzerVars, taggerVars,
                   corpusVars, parallelVars, buildVars, voteVars, ingestVars,
                   sliceVars>>

NextDump == SkipUndecodable \/ YieldRecord \/ EndOfDump

(***************************************************************************)
(* UniversalRomanizer.call_parallel: the list is cut into chunks, a pool   *)
(* of num_workers processes runs self.call on them, and p_map gives the    *)
(* results in the order of the chunks, whichever worker ends first.        *)
(* The uroman program here writes each line it reads in Latin letters and  *)
(* keeps the line ends.                                                    *)
(***************************************************************************)
MaxBatch == 3

MaxWorkers == 2

\* chunks(lst, n): lst[i : i + n] for i in range(0, len(lst), n)
chunks(lst, n) ==
    [k \in 1..((Len(lst) + n - 1) \div n) |->
        SubSeq(lst, (k - 1) * n + 1, Min2(k * n, Len(lst)))]

\* one character as uroman writes it: U+3042 (HIRAGANA LETTER A) is "a"
romanize_char(c) == IF c = "U+3042" THEN "a" ELSE c

romanization(string) == [i \in 1..Len(string) |-> romanize_char(string[i])]

\* the lines a program reads from "\n".join(strings): the pieces between
\* the line ends, without an empty piece after the last line end
stdin_lines(strs) ==
    LET pieces == SplitOn(Join(strs, <<"\n">>), "\n")
    IN IF pieces[Len(pieces)] = <<>> THEN SubSeq(pieces, 1, Len(pieces) - 1)
       ELSE pieces

\* what running uroman on the strings does: one line out per line in
uroman_run(strs, launch) ==
    IF launch # "ran" THEN [launch |-> launch, returncode |-> -1, lines |-> <<>>]
    ELSE [launch |-> "ran", returncode |-> 0,
          lines |-> [k \in 1..Len(stdin_lines(strs)) |->
                        romanization(stdin_lines(strs)[k])]]

\* it.chain.from_iterable(lists)
RECURSIVE chain_from_iterable(_)
chain_from_iterable(lists) ==
    IF lists = <<>> THEN <<>>
    ELSE Head(lists) \o chain_from_iterable(Tail(lists))

\* results as they were finished, as p_umap gives them
results_as_finished(outputs, finished) ==
    [k \in 1..Len(finished) |-> outputs[finished[k]]]

\* p_map(self.call, chunks): the result of chunk k is at place k
p_map(outputs, finished) == [k \in 1..Len(finished) |-> outputs[k]]

ParallelStrings ==
    UNION {[1..n -> {<<>>, <<"a">>, <<"b">>, <<"U+3042", "b">>}]
             : n \in 0..MaxBatch}

InitParallelWith(strs, n, w, launch, pc) ==
    /\ pm_strings = strs
    /\ chunksize = n
    /\ num_workers = w
    /\ pm_launch = launch
    /\ pm_next = 1
    /\ pm_running = {}
    /\ pm_finished = <<>>
    /\ pm_outputs = <<>>
    /\ pm_ret = None
    /\ pm_pc = pc

IdleParallel == InitParallelWith(<<>>, 1, 1, "ran", "idle")

InitParallel ==
    \E strs \in ParallelStrings, n \in 1..MaxBatch, w \in 1..MaxWorkers,
       launch \in {"ran", "missing"} :
        InitParallelWith(strs, n, w, launch, "pending")

NChunks == Len(chunks(pm_strings, chunksize))

\* the pool hands the next chunk to a free worker
StartChunk ==
    /\ pm_pc = "pending"
    /\ pm_next <= NChunks
    /\ Cardinality(pm_running) < num_workers
    /\ pm_running' = pm_running \cup {pm_next}
    /\ pm_next' = pm_next + 1
    /\ UNCHANGED <<pm_strings, chunksize, num_workers, pm_launch, pm_finished,
                   pm_outputs, pm_ret, pm_pc>>
    /\ UNCHANGED <<alignVars, nameVars, toolVars, analyzerVars, taggerVars,
                   corpusVars, dumpVars, buildVars, voteVars, ingestVars,
                   sliceVars>>

\* a worker ends self.call on its chunk; an exception in a worker ends
\* call_parallel with that exception
FinishChunk(k) ==
    /\ pm_pc = "pending"
    /\ k \in pm_running
    /\ LET chunk == chunks(pm_strings, chunksize)[k]
           r == UniversalRomanizer_call(chunk, uroman_run(chunk, pm_launch))
       IN IF r.pc = "returned"
          THEN /\ pm_outputs' = [j \in DOMAIN pm_outputs \cup {k} |->
                                   IF j = k THEN r.output[1] ELSE pm_outputs[j]]
               /\ pm_finished' = Append(pm_finished, k)
               /\ pm_running' = pm_running \ {k}
               /\ UNCHANGED pm_pc
          ELSE /\ pm_pc' = r.pc
               /\ pm_running' = {}
               /\ UNCHANGED <<pm_outputs, pm_finished>>
    /\ UNCHANGED <<pm_strings, chunksize, num_workers, pm_launch, pm_next,
                   pm_ret>>
    /\ UNCHANGED <<alignVars, nameVars, toolVars, analyzerVars, taggerVars,
                   corpusVars, dumpVars, buildVars, voteVars, ingestVars,
                   sliceVars>>

\* every chunk is done: list(it.chain.from_iterable(p_map(...)))
ReturnParallel ==
    /\ pm_pc = "pending"
    /\ Len(pm_finished) = NChunks
    /\ pm_ret' = Some(chain_from_iterable(p_map(pm_outputs, pm_finished)))
    /\ pm_pc' = "returned"
    /\ UNCHANGED <<pm_strings, chunksize, num_workers, pm_launch, pm_next,
                   pm_running, pm_finished, pm_outputs>>
    /\ UNCHANGED <<alignVars, nameVars, toolVars, analyzerVars, taggerVars,
                   corpusVars, dumpVars, buildVars, voteVars, ingestVars,
                   sliceVars>>

NextParallel ==
    \/ StartChunk
    \/ \E k \in 1..MaxBatch : FinishChunk(k)
    \/ ReturnParallel

(***************************************************************************)
(* Corpus.__attrs_post_init__: the permuter, filter_names, the prototype,  *)
(* and the alignments with their statistics, one after the other.  The     *)
(* romanizer gives each name's text back as it is, and fast_align prints   *)
(* one line per name: "0-1 1-0" for two tokens in the reverse order of the *)
(* English ones and "0-0" otherwise.                                       *)
(***************************************************************************)
\* the order of the stages of __attrs_post_init__
Stages == <<"permute", "filter", "prototype", "align">>

\* Corpus(...) with its default analyzer settings
CorpusAnalyzer ==
    [strip |-> TRUE, ignore_punctuation |-> TRUE, ignore_numbers |-> TRUE,
     normalize_histogram |-> TRUE]

PermuterClasses ==
    {"ParenthesisRemover", "PermuteLowestDistance",
     "RemoveParenthesisPermuteLowestDistance"}

\* self.permuter(names) for one name of the list
permuter_call(flags, name) ==
    LET m == IF flags.permuter_inplace THEN "inplace" ELSE "immutable"
    IN CASE flags.permuter_class = "PermuteLowestDistance" ->
              PermuteLowestDistance_call(m, name, uroman_line("same", name.text))
         [] flags.permuter_class = "RemoveParenthesisPermuteLowestDistance" ->
              RemoveParenthesisPermuteLowestDistance_call(name, "same")
         [] OTHER ->
              IF flags.permuter_inplace
              THEN NameProcessor_call_inplace(flags.permuter_class, name)
              ELSE NameProcessor_call_immutable(flags.permuter_class, name)

permuter(flags, ns) == [k \in 1..Len(ns) |-> permuter_call(flags, ns[k])]

\* Corpus.filter_names: n.text.strip() and n.english_text
filter_names(ns) ==
    SelectSeq(ns, LAMBDA n : Strip(n.text) # <<>> /\ n.english_text # <<>>)

\* "".join(n.text for n in self.names)
RECURSIVE JoinedTexts(_)
JoinedTexts(ns) ==
    IF ns = <<>> THEN <<>> ELSE Head(ns).text \o JoinedTexts(Tail(ns))

\* self.prototype.most_common()[0][0]: IndexError on an empty prototype
prototype_block(ns) ==
    LET prototype ==
            histogram_of(CorpusAnalyzer,
                         unicode_blocks(CorpusAnalyzer, JoinedTexts(ns))).value
    IN IF prototype = <<>> THEN [pc |-> "IndexError", block |-> ""]
       ELSE [pc |-> "returned", block |-> most_common_1(prototype)[1].key]

\* the line fast_align prints for a name
fast_align_line(name) ==
    LET toks == SplitWs(name.text)
        eng == SplitWs(name.english_text)
    IN IF Len(toks) = 2 /\ Len(eng) = 2 /\ toks[1] = eng[2] /\ toks[2] = eng[1]
       THEN <<"0", "-", "1", " ", "1", "-", "0">>
       ELSE <<"0", "-", "0">>

fast_align_run(ns) ==
    [launch |-> "ran", returncode |-> 0,
     lines |-> [k \in 1..Len(ns) |-> fast_align_line(ns[k])]]

BuildTexts ==
    {<<"a", " ", "b">>, <<"b", " ", "a">>, <<"(", "b", ")">>,
     <<"a", "(", "b", ")">>}

BuildNames ==
    {load_name(text, <<"a", " ", "b">>, LoadedRow) : text \in BuildTexts}
    \cup {load_name(<<"a">>, <<>>, LoadedRow)}

BuildFlags ==
    [find_best_token_permutation : BOOLEAN, align_with_english : BOOLEAN,
     analyze_unicode : BOOLEAN, permuter_class : PermuterClasses,
     permuter_inplace : BOOLEAN]

InitBuildWith(ns, flags, pc) ==
    /\ cb_input = ns
    /\ cb_flags = flags
    /\ cb_names = ns
    /\ cb_stage = 1
    /\ cb_block = None
    /\ cb_alignments = None
    /\ cb_stats = None
    /\ cb_pc = pc

IdleBuild ==
    InitBuildWith(<<>>, CHOOSE f \in BuildFlags : TRUE, "idle")

InitBuild ==
    \E ns \in UNION {[1..n -> BuildNames] : n \in 0..MaxNames},
       flags \in BuildFlags :
        InitBuildWith(ns, flags, "building")

AtStage(stage) ==
    /\ cb_pc = "building"
    /\ cb_stage <= Len(Stages)
    /\ Stages[cb_stage] = stage

OtherVars ==
    <<alignVars, nameVars, toolVars, analyzerVars, taggerVars, corpusVars,
      dumpVars, parallelVars>>

\* if self.find_best_token_permutation: self.names = self.permuter(names)
ApplyPermuter ==
    /\ AtStage("permute")
    /\ cb_names' = IF cb_flags.find_best_token_permutation
                   THEN permuter(cb_flags, cb_names) ELSE cb_names
    /\ cb_stage' = cb_stage + 1
    /\ UNCHANGED <<cb_input, cb_flags, cb_block, cb_alignments, cb_stats,
                   cb_pc, OtherVars, voteVars, ingestVars, sliceVars>>

\* self.names = self.filter_names(self.names)
FilterNames ==
    /\ AtStage("filter")
    /\ cb_names' = filter_names(cb_names)
    /\ cb_stage' = cb_stage + 1
    /\ UNCHANGED <<cb_input, cb_flags, cb_block, cb_alignments, cb_stats,
                   cb_pc, OtherVars, voteVars, ingestVars, sliceVars>>

\* if self.analyze_unicode: the prototype and its most common block
ComputePrototype ==
    /\ AtStage("prototype")
    /\ IF cb_flags.analyze_unicode
       THEN LET r == prototype_block(cb_names)
            IN IF r.pc = "returned"
               THEN cb_block' = Some(r.block) /\ UNCHANGED cb_pc
               ELSE cb_pc' = r.pc /\ UNCHANGED cb_block
       ELSE cb_block' = Some("") /\ UNCHANGED cb_pc
    /\ cb_stage' = cb_stage + 1
    /\ UNCHANGED <<cb_input, cb_flags, cb_names, cb_alignments, cb_stats,
                   OtherVars, voteVars, ingestVars, sliceVars>>

\* if self.align_with_english: compute_alignments(), compute_stats()
AlignWithEnglish ==
    /\ AtStage("align")
    /\ IF cb_flags.align_with_english
       THEN LET r == FastAligner_call(cb_names, fast_align_run(cb_names), FALSE)
            IN IF r.pc = "returned"
               THEN /\ cb_alignments' = r.alignments
                    /\ cb_names' = r.names
                    /\ cb_stats' = Some(compute_stats(r.names, r.alignments[1]))
                    /\ UNCHANGED cb_pc
               ELSE /\ cb_pc' = r.pc
                    /\ cb_names' = r.names
                    /\ UNCHANGED <<cb_alignments, cb_stats>>
       ELSE UNCHANGED <<cb_names, cb_alignments, cb_stats, cb_pc>>
    /\ cb_stage' = cb_stage + 1
    /\ UNCHANGED <<cb_input, cb_flags, cb_block, OtherVars, voteVars,
                   ingestVars, sliceVars>>

\* __attrs_post_init__ returns
BuildDone ==
    /\ cb_pc = "building"
    /\ cb_stage > Len(Stages)
    /\ cb_pc' = "done"
    /\ UNCHANGED <<cb_input, cb_flags, cb_names, cb_stage, cb_block,
                   cb_alignments, cb_stats, OtherVars, voteVars, ingestVars,
                   sliceVars>>

NextBuild ==
    \/ ApplyPermuter
    \/ FilterNames
    \/ ComputePrototype
    \/ AlignWithEnglish
    \/ BuildDone

(***************************************************************************)
(* standardize_script in label-model mode: the predictions of the five     *)
(* labeling functions on the names of a language slice, stacked into the   *)
(* matrix noisy_votes.                                                     *)
(***************************************************************************)
\* yield_preds: None gives 0, anomalous 1, not anomalous -1
yield_pred(anomalous) ==
    IF anomalous = None THEN 0 ELSE IF anomalous[1] THEN 1 ELSE -1

\* get_preds(tagger): one prediction per name of the corpus
get_preds(tagger, ns, env) ==
    [k \in 1..Len(ns) |-> yield_pred(classify(tagger, ns[k], env))]

\* the tagger behind each of ibt_preds, mbt_preds, dbt_preds, hk_preds and
\* cjk_preds
PredsTaggers ==
    <<"IncorrectBlockTagger", "MissingBlockTagger", "JSDTagger",
      "HiraganaKatakanaTagger", "HiraganaKatakanaTagger">>

\* np.vstack([ibt_preds, mbt_preds, dbt_preds, hk_preds, cjk_preds]).T
vstack_T(ns, env) ==
    [i \in 1..Len(ns) |->
        [j \in 1..Len(PredsTaggers) |-> get_preds(PredsTaggers[j], ns, env)[i]]]

VoteTexts == {<<"a">>, <<"U+3042">>, <<"U+4E2D">>}

VoteLanguages == {<<"j", "a">>, <<"z", "h">>, <<"e", "n">>}

InitVotesWith(ns, env) ==
    /\ vm_names = ns
    /\ vm_env = env
    /\ noisy_votes = None

IdleVotes == InitVotesWith(<<>>, [most_common_block |-> "", jsd_far |-> FALSE])

InitVotes ==
    \E language \in VoteLanguages, n \in 1..MaxNames,
       block \in {"BASIC_LATIN", "HIRAGANA", "CJK_UNIFIED_IDEOGRAPHS"},
       far \in BOOLEAN :
        \E texts \in [1..n -> VoteTexts] :
            InitVotesWith([k \in 1..n |-> TaggedName(texts[k], language)],
                          [most_common_block |-> block, jsd_far |-> far])

\* the predictions are taken and stacked
BuildVoteMatrix ==
    /\ vm_names # <<>>
    /\ noisy_votes = None
    /\ noisy_votes' = Some(vstack_T(vm_names, vm_env))
    /\ UNCHANGED <<vm_names, vm_env, OtherVars, buildVars, ingestVars,
                   sliceVars>>

NextVotes == BuildVoteMatrix

(***************************************************************************)
(* WikidataMongoIngesterWorker: every worker reads the whole input file    *)
(* and ingests the lines of its own schedule; the workers of one run put   *)
(* their documents into one collection.  A step of a worker is one turn of *)
(* its loop over the lines, or the end of the file.                        *)
(***************************************************************************)
\* the lines of the input file: undecodable text, a record with id and
\* labels, a record without id
IngestLines == {None, Some({"id", "labels"}), Some({"labels"})}

\* WikidataMongoIngesterWorker.__init__; max_docs is None for math.inf
IngesterWorker(start_at, read_every, cache_size, max_docs) ==
    [start_at |-> start_at, next_read_at |-> start_at,
     read_every |-> read_every, cache_size |-> cache_size, cache_used |-> 0,
     cache |-> <<>>, max_docs |-> max_docs, n_decode_errors |-> 0]

\* the workers numbered from 0: for i in range(num_workers)
main_workers_from_zero(n, cache_size) ==
    [i \in 1..n |-> IngesterWorker(i - 1, n, cache_size, None)]

\* the workers main builds: start_at = i and read_every = num_workers for
\* i in range(1, num_workers + 1); cache_size 100 is cut to the given one
main_workers(n, cache_size) ==
    [i \in 1..n |-> IngesterWorker(i, n, cache_size, None)]

\* WikidataMongoIngesterWorker.write: the worker afterwards
write_worker(self) ==
    IF self.cache # <<>> THEN [self EXCEPT !.cache = <<>>, !.cache_used = 0]
    ELSE self

\* WikidataMongoIngesterWorker.write: the collection afterwards
write_db(self, i, db) ==
    db \o [k \in 1..Len(self.cache) |-> [line |-> self.cache[k], worker |-> i]]

\* the try block of __call__ for the line at next_read_at, and the note of
\* the next line to read at, which a decode error jumps over
ingest_line(self, line_nr, line) ==
    LET doc == orjson_loads(line)
    IN IF doc.raised # ""
       THEN [pc |-> "continue",
             self |-> [self EXCEPT !.n_decode_errors = @ + 1]]
       ELSE IF WikidataRecord(doc.doc).raised # ""
       THEN [pc |-> WikidataRecord(doc.doc).raised, self |-> self]
       ELSE [pc |-> "",
             self |-> [self EXCEPT !.cache = Append(@, line_nr),
                                   !.cache_used = @ + 1,
                                   !.next_read_at = @ + self.read_every]]

past_max_docs(self, line_nr) ==
    self.max_docs # None /\ line_nr > self.max_docs[1]

cache_full(self) == self.cache_used >= self.cache_size

InitIngestWith(lines, workers, pc) ==
    /\ ig_lines = lines
    /\ ig_workers = workers
    /\ ig_read = [i \in DOMAIN workers |-> 0]
    /\ ig_db = <<>>
    /\ ig_pc = [i \in DOMAIN workers |-> pc]

IdleIngest == InitIngestWith(<<>>, <<>>, "idle")

IngestFiles == UNION {[1..n -> IngestLines] : n \in 0..MaxRows}

\* one worker of any schedule, or the workers of main
InitIngest ==
    \E lines \in IngestFiles, cache_size \in 1..2 :
        \/ \E start_at \in 0..2, read_every \in 1..2,
              max_docs \in {None, Some(2)} :
               InitIngestWith(lines,
                   <<IngesterWorker(start_at, read_every, cache_size, max_docs)>>,
                   "running")
        \/ \E n \in 2..MaxWorkers :
               InitIngestWith(lines, main_workers(n, cache_size), "running")

IngestOthers ==
    <<OtherVars, buildVars, voteVars, sliceVars>>

\* one turn of `for line_nr, line in enumerate(f, start=1)` of worker i
WorkerLine(i) ==
    /\ i \in DOMAIN ig_workers
    /\ ig_pc[i] = "running"
    /\ ig_read[i] < Len(ig_lines)
    /\ LET self == ig_workers[i]
           line_nr == ig_read[i] + 1
           line == ig_lines[line_nr]
           r == ingest_line(self, line_nr, line)
           Stay(w, db, pc) ==
               /\ ig_workers' = [ig_workers EXCEPT ![i] = w]
               /\ ig_db' = db
               /\ ig_pc' = [ig_pc EXCEPT ![i] = pc]
       IN /\ ig_read' = [ig_read EXCEPT ![i] = line_nr]
          /\ IF line_nr < self.start_at THEN Stay(self, ig_db, "running")
             ELSE IF past_max_docs(self, line_nr)
             THEN Stay(write_worker(self), write_db(self, i, ig_db), "done")
             ELSE IF line_nr # self.next_read_at
             THEN IF cache_full(self)
                  THEN Stay(write_worker(self), write_db(self, i, ig_db),
                            "running")
                  ELSE Stay(self, ig_db, "running")
             ELSE IF r.pc = "continue" THEN Stay(r.self, ig_db, "running")
             ELSE IF r.pc # "" THEN Stay(r.self, ig_db, r.pc)
             ELSE IF cache_full(r.self)
             THEN Stay(write_worker(r.self), write_db(r.self, i, ig_db),
                       "running")
             ELSE Stay(r.self, ig_db, "running")
    /\ UNCHANGED <<ig_lines, IngestOthers>>

\* the file is used up: "finally write one more time"
WorkerEndOfFile(i) ==
    /\ i \in DOMAIN ig_workers
    /\ ig_pc[i] = "running"
    /\ ig_read[i] = Len(ig_lines)
    /\ ig_workers' = [ig_workers EXCEPT ![i] = write_worker(@)]
    /\ ig_db' = write_db(ig_workers[i], i, ig_db)
    /\ ig_pc' = [ig_pc EXCEPT ![i] = "done"]
    /\ UNCHANGED <<ig_lines, ig_read, IngestOthers>>

NextIngest ==
    \E i \in 1..MaxWorkers : WorkerLine(i) \/ WorkerEndOfFile(i)

(***************************************************************************)
(* tag_and_split_names up to the taggers: the analyzer of the slice, the   *)
(* names the loader builds, the expected block and the prototype.          *)
(***************************************************************************)
\* UnicodeAnalyzer(strip=strip, ignore_punctuation=True,
\* ignore_numbers=True, normalize_histogram=True)
slice_analyzer(strip) ==
    [strip |-> strip, ignore_punctuation |-> TRUE, ignore_numbers |-> TRUE,
     normalize_histogram |-> TRUE]

\* TransliteratedNameLoader.load_name: unicode_analyzer is the analyzer of
\* the class, UnicodeAnalyzer(), whatever analyzer the caller has
load_slice_name(self_analyzer, text, language) ==
    [load_name(text, <<"a">>, LoadedRow) EXCEPT
        !.language = language, !.unicode_analyzer = DefaultAnalyzer]

\* subset[alias_column].apply(most_common_unicode_block).value_counts()
\* .idxmax(): the block most names have
slice_most_common_block(self, texts) ==
    most_common_block_of(
        CounterOf([k \in 1..Len(texts) |->
                      most_common_block_of(unicode_blocks(self, texts[k]))],
                  <<>>))

\* unicode_analyzer.unicode_block_histogram("".join(texts))
slice_prototype(self, texts) ==
    histogram_of(self, unicode_blocks(self, chain_from_iterable(texts))).value

SliceTexts ==
    {<<"a">>, <<"1", "a">>, <<"a", ",">>, <<" ", "a">>, <<"U+3042">>}

InitSliceWith(strip, texts) ==
    /\ ts_strip = strip
    /\ ts_texts = texts
    /\ ts_names = <<>>
    /\ ts_expected = None

IdleSlice == InitSliceWith(TRUE, <<>>)

InitSlice ==
    \E strip \in BOOLEAN, n \in 1..MaxNames :
        \E texts \in [1..n -> SliceTexts] : InitSliceWith(strip, texts)

\* name_loader(subset)
LoadSliceNames ==
    /\ ts_texts # <<>>
    /\ ts_names = <<>>
    /\ ts_names' = [k \in 1..Len(ts_texts) |->
                       load_slice_name(slice_analyzer(ts_strip), ts_texts[k],
                                       <<"j", "a">>)]
    /\ UNCHANGED <<ts_strip, ts_texts, ts_expected, OtherVars, buildVars,
                   voteVars, ingestVars>>

\* most_common_block and the distribution given to the JSDTagger
FindExpected ==
    /\ ts_names # <<>>
    /\ ts_expected = None
    /\ ts_expected' =
           Some([most_common_block |->
                     slice_most_common_block(slice_analyzer(ts_strip), ts_texts),
                 per_language_distribution |->
                     slice_prototype(slice_analyzer(ts_strip), ts_texts)])
    /\ UNCHANGED <<ts_strip, ts_texts, ts_names, OtherVars, buildVars,
                   voteVars, ingestVars>>

NextSlice == LoadSliceNames \/ FindExpected

(***************************************************************************)
(* Specifications: one per component, the other components at rest.        *)
(***************************************************************************)
AlignInit ==
    InitAlign /\ IdleNames /\ IdleTools /\ IdleAnalyzer /\ IdleTaggers
    /\ IdleCorpus /\ IdleDump
    /\ IdleParallel
    /\ IdleBuild
    /\ IdleVotes
    /\ IdleIngest
    /\ IdleSlice

SpecAlign == AlignInit /\ [][NextAlign]_vars

NamesInit ==
    InitNames /\ IdleAlign /\ IdleTools /\ IdleAnalyzer /\ IdleTaggers
    /\ IdleCorpus /\ IdleDump
    /\ IdleParallel
    /\ IdleBuild
    /\ IdleVotes
    /\ IdleIngest
    /\ IdleSlice

SpecNames == NamesInit /\ [][NextNames]_vars

ToolsInit ==
    InitTools /\ IdleAlign /\ IdleNames /\ IdleAnalyzer /\ IdleTaggers
    /\ IdleCorpus /\ IdleDump
    /\ IdleParallel
    /\ IdleBuild
    /\ IdleVotes
    /\ IdleIngest
    /\ IdleSlice

SpecTools == ToolsInit /\ [][NextTools]_vars

AnalyzerInit ==
    InitAnalyzer /\ IdleAlign /\ IdleNames /\ IdleTools /\ IdleTaggers
    /\ IdleCorpus /\ IdleDump
    /\ IdleParallel
    /\ IdleBuild
    /\ IdleVotes
    /\ IdleIngest
    /\ IdleSlice

SpecAnalyzer == AnalyzerInit /\ [][NextAnalyzer]_vars

TaggersInit ==
    InitTaggers /\ IdleAlign /\ IdleNames /\ IdleTools /\ IdleAnalyzer
    /\ IdleCorpus /\ IdleDump
    /\ IdleParallel
    /\ IdleBuild
    /\ IdleVotes
    /\ IdleIngest
    /\ IdleSlice

SpecTaggers == TaggersInit /\ [][NextTaggers]_vars

CorpusInit ==
    InitCorpus /\ IdleAlign /\ IdleNames /\ IdleTools /\ IdleAnalyzer
    /\ IdleTaggers /\ IdleDump
    /\ IdleParallel
    /\ IdleBuild
    /\ IdleVotes
    /\ IdleIngest
    /\ IdleSlice

SpecCorpus == CorpusInit /\ [][NextCorpus]_vars

DumpInit ==
    InitDump /\ IdleAlign /\ IdleNames /\ IdleTools /\ IdleAnalyzer
    /\ IdleTaggers /\ IdleCorpus
    /\ IdleParallel
    /\ IdleBuild
    /\ IdleVotes
    /\ IdleIngest
    /\ IdleSlice

SpecDump == DumpInit /\ [][NextDump]_vars

ParallelInit ==
    InitParallel /\ IdleAlign /\ IdleNames /\ IdleTools /\ IdleAnalyzer
    /\ IdleTaggers /\ IdleCorpus /\ IdleDump
    /\ IdleBuild
    /\ IdleVotes
    /\ IdleIngest
    /\ IdleSlice

SpecParallel == ParallelInit /\ [][NextParallel]_vars

BuildInit ==
    InitBuild /\ IdleAlign /\ IdleNames /\ IdleTools /\ IdleAnalyzer
    /\ IdleTaggers /\ IdleCorpus /\ IdleDump /\ IdleParallel
    /\ IdleVotes
    /\ IdleIngest
    /\ IdleSlice

SpecBuild == BuildInit /\ [][NextBuild]_vars

VotesInit ==
    InitVotes /\ IdleAlign /\ IdleNames /\ IdleTools /\ IdleAnalyzer
    /\ IdleTaggers /\ IdleCorpus /\ IdleDump /\ IdleParallel /\ IdleBuild
    /\ IdleIngest
    /\ IdleSlice

SpecVotes == VotesInit /\ [][NextVotes]_vars

IngestInit ==
    InitIngest /\ IdleAlign /\ IdleNames /\ IdleTools /\ IdleAnalyzer
    /\ IdleTaggers /\ IdleCorpus /\ IdleDump /\ IdleParallel /\ IdleBuild
    /\ IdleVotes
    /\ IdleSlice

SpecIngest == IngestInit /\ [][NextIngest]_vars

SliceInit ==
    InitSlice /\ IdleAlign /\ IdleNames /\ IdleTools /\ IdleAnalyzer
    /\ IdleTaggers /\ IdleCorpus /\ IdleDump /\ IdleParallel /\ IdleBuild
    /\ IdleVotes /\ IdleIngest

SpecSlice == SliceInit /\ [][NextSlice]_vars

(***************************************************************************)
(* Claims about the crossing count.                                        *)
(***************************************************************************)

\* link j is visited before link i: ascending source index, input order
\* among equal source indices
VisitedBefore(links, j, i) ==
    \/ links[j][1] < links[i][1]
    \/ links[j][1] = links[i][1] /\ j < i

TargetsBefore(links, i) ==
    {links[j][2] : j \in {j \in 1..Len(links) : VisitedBefore(links, j, i)}}

SetMax(S) == CHOOSE m \in S : \A x \in S : x <= m

CountedLinks(links) ==
    {i \in 1..Len(links) :
        /\ TargetsBefore(links, i) # {}
        /\ links[i][2] < SetMax(TargetsBefore(links, i))}

CrossingOf(links) ==
    al_pc = "done" /\ al_input.links = links /\ al_input.wellformed

DistinctSources(links) ==
    \A i, j \in 1..Len(links) : i # j => links[i][1] # links[j][1]

Inversions(links) ==
    {p \in (1..Len(links)) \X (1..Len(links)) :
        links[p[1]][1] < links[p[2]][1] /\ links[p[1]][2] > links[p[2]][2]}

InvertedLinks(links) ==
    {b \in 1..Len(links) : \E a \in 1..Len(links) : <<a, b>> \in Inversions(links)}

\* C2 as stated: with pairwise distinct source indices the crossing count is
\* the number of inverted pairs of links.
C2_CountIsInversions ==
    (al_pc = "done" /\ al_input.wellformed /\ DistinctSources(al_input.links)) =>
        alignment.n_cross_alignments = Cardinality(Inversions(al_input.links))

\* C2 amended: with pairwise distinct source indices the crossing count is
\* the number of links that are inverted with at least one link of smaller
\* source index; it never exceeds the number of inverted pairs and is zero
\* exactly when there is none.
C2_CountIsInvertedLinks ==
    (al_pc = "done" /\ al_input.wellformed /\ DistinctSources(al_input.links)) =>
        /\ alignment.n_cross_alignments = Cardinality(InvertedLinks(al_input.links))
        /\ alignment.n_cross_alignments <= Cardinality(Inversions(al_input.links))
        /\ (alignment.n_cross_alignments = 0) <=> (Inversions(al_input.links) = {})

C2_Witness ==
    /\ CrossingOf(<< <<0, 2>>, <<1, 1>>, <<2, 0>> >>)
    /\ alignment.n_cross_alignments = 2
    /\ Cardinality(Inversions(al_input.links)) = 3

(***************************************************************************)
(* Claims about the name processors.                                       *)
(***************************************************************************)
Called(m) == n_calls[m] >= 1

\* the name as it was handed to the last call, and as the call returned it
Passed(m) == before[m][1]

Result(m) == ret[m][1]

\* C3 as stated: PermuteLowestDistance sets the text of a name of 2 to 4
\* tokens to the ordering of its tokens whose positionally paired romanized
\* ordering is nearest to english_text among all n! orderings, the first
\* such ordering in enumeration order, whatever the romanized token count.
C3_MinimumOverAllOrderings ==
    \A m \in Modes :
        (processor = "PermuteLowestDistance" /\ Called(m)
            /\ Len(SplitWs(Passed(m).text)) \in 2..4) =>
        LET orderings == JoinAll(permutations(SplitWs(Passed(m).text)))
            paired == JoinAll(permutations(SplitWs(romanized[m][1])))
            d(k) == editdistance(paired[k], Passed(m).english_text)
        IN /\ Len(paired) >= Len(orderings)
           /\ \E k \in 1..Len(orderings) :
                /\ Result(m).text = orderings[k]
                /\ \A j \in 1..Len(orderings) :
                     d(k) <= d(j) /\ (j < k => d(k) < d(j))

\* the text the permuting step of the processor received
PermuterInput(m) ==
    IF processor = "RemoveParenthesisPermuteLowestDistance"
    THEN NameProcessor_call_immutable("ParenthesisRemover", Passed(m))
    ELSE Passed(m)

OutOfRangeCall(m) ==
    /\ processor \in {"PermuteLowestDistance",
                      "RemoveParenthesisPermuteLowestDistance"}
    /\ Called(m)
    /\ Len(SplitWs(PermuterInput(m).text)) \notin 2..4

\* C4 as stated: for a name whose token count is outside [2,4] the permuter,
\* alone or as the second step of the composed processor, leaves the text
\* unchanged and is_unchanged is true afterwards.
C4_OutOfRangeIsUnchangedTrue ==
    \A m \in Modes :
        OutOfRangeCall(m) =>
            /\ Result(m).text = PermuterInput(m).text
            /\ Result(m).is_unchanged = TRUE

\* C4 amended: for such a name the permuter leaves the text and is_unchanged
\* as it received them: is_unchanged stays true for a name not changed
\* before, and stays false in the composed processor when the parenthesis
\* step has changed the text.
C4_OutOfRangeLeftAsReceived ==
    \A m \in Modes :
        OutOfRangeCall(m) =>
            /\ Result(m).text = PermuterInput(m).text
            /\ Result(m).is_unchanged = PermuterInput(m).is_unchanged
            /\ Passed(m).is_unchanged /\ processor = "PermuteLowestDistance"
                 => Result(m).is_unchanged
            /\ processor = "RemoveParenthesisPermuteLowestDistance" =>
                 (Result(m).is_unchanged <=> Result(m).text = Passed(m).text)

C4_Witness ==
    /\ OutOfRangeCall("immutable")
    /\ processor = "RemoveParenthesisPermuteLowestDistance"
    /\ Passed("immutable").text = <<"a", " ", "(", "b", ")">>
    /\ Result("immutable").text = <<"a">>
    /\ ~Result("immutable").is_unchanged

\* C5 as stated: applied to equal inputs, a processor with inplace = True
\* and the same processor with inplace = False yield the same text.
C5_ModesAgreeOnText ==
    (/\ Called("inplace") /\ Called("immutable")
     /\ Passed("inplace") = Passed("immutable")
     /\ romanized["inplace"] = romanized["immutable"]) =>
        Result("inplace").text = Result("immutable").text

OtherFields(name) ==
    <<name.language, name.english_text, name.wikidata_id, name.conll_type,
      name.anomalous, name.noise_sample, name.alignment>>

\* C6 as stated: a call with inplace = False leaves the record it was given
\* as it was and returns a record whose language, english_text, entity id,
\* entity type, anomalous, noise_sample and alignment are those of the input.
C6_ImmutableKeepsOtherFields ==
    Called("immutable") =>
        /\ arg["immutable"] = Passed("immutable")
        /\ OtherFields(Result("immutable")) = OtherFields(Passed("immutable"))

HasComma(s) == \E k \in 1..Len(s) : s[k] = ","

FirstComma(s) ==
    CHOOSE k \in 1..Len(s) : s[k] = "," /\ \A j \in 1..(k - 1) : s[j] # ","

\* the text after the first comma, one space, the text before it
Swapped(s) ==
    SubSeq(s, FirstComma(s) + 1, Len(s)) \o <<" ">> \o SubSeq(s, 1, FirstComma(s) - 1)

WithoutChar(s, c) == SelectSeq(s, LAMBDA x : x # c)

\* s without its longest prefix and its longest suffix of characters of cs
Trimmed(s, cs) ==
    LET p == CHOOSE p \in (1..(Len(s) + 1)) \X (0..Len(s)) :
                 /\ p[1] <= p[2] + 1
                 /\ \A k \in 1..(p[1] - 1) : s[k] \in cs
                 /\ \A k \in (p[2] + 1)..Len(s) : s[k] \in cs
                 /\ p[1] <= p[2] => (s[p[1]] \notin cs /\ s[p[2]] \notin cs)
    IN SubSeq(s, p[1], p[2])

CommaCall(m) == processor = "PermuteFirstComma" /\ Called(m)

\* C7 as stated: without a comma the output is the input; with one it is
\* the text after the first comma, a space, the text before it, with the
\* residual commas stripped and the surrounding whitespace trimmed.
C7_SwapWithoutCommas ==
    \A m \in Modes :
        CommaCall(m) =>
            Result(m).text =
                IF HasComma(Passed(m).text)
                THEN Trimmed(WithoutChar(Swapped(Passed(m).text), ","), Whitespace)
                ELSE Passed(m).text

\* C7 amended: without a comma the output is the input; with one it is the
\* text after the first comma, a space, the text before it, with the commas
\* at the two ends of that string removed and then the surrounding
\* whitespace trimmed; a comma inside it, or one laid bare by the trimming
\* of whitespace, stays.  "Biden, Joe" gives "Joe Biden".
C7_SwapWithEndCommasStripped ==
    \A m \in Modes :
        CommaCall(m) =>
            /\ Result(m).text =
                 IF HasComma(Passed(m).text)
                 THEN Trimmed(Trimmed(Swapped(Passed(m).text), {","}), Whitespace)
                 ELSE Passed(m).text
            /\ Passed(m).text = BidenJoe => Result(m).text = JoeBiden

C7_Witness ==
    /\ CommaCall("inplace")
    /\ n_calls["inplace"] = 1
    /\ loaded.text = <<"a", ",", "b", ",">>
    /\ Result("inplace").text = <<"b", ",", " ", "a">>

\* C8: ParenthesisRemover.process is idempotent: a second application to
\* the result of the first returns it as it is.
C8_ParenthesisRemoverIdempotent ==
    \A m \in Modes :
        (processor = "ParenthesisRemover" /\ n_calls[m] >= 2) =>
            /\ Result(m).text = Passed(m).text
            /\ Result(m).is_unchanged

C8_Witness ==
    /\ processor = "ParenthesisRemover"
    /\ n_calls["immutable"] = 2
    /\ loaded.text = <<"(", "a", ")", "(">>
    /\ Result("immutable").text = <<"(">>

(***************************************************************************)
(* Claims about the adapters.                                              *)
(***************************************************************************)
Ended == call_pc # "idle"

Fatal == call_pc \in {"ValueError", "AssertionError"}

\* C9 as stated: UniversalRomanizer returns a list only when the tool
\* printed exactly one line per input string, and then returns those lines;
\* with fewer or more lines the call ends with the assertion.
C9_LineCountMismatchIsFatal ==
    (adapter = "uroman" /\ Ended /\ tool.launch = "ran") =>
        IF Len(tool.lines) = Len(strings)
        THEN call_pc = "returned" /\ uroman_output = Some(tool.lines)
        ELSE call_pc = "AssertionError"

\* C10 as stated: for both adapters a missing binary, a launch failure and
\* a non-zero exit status each end the call with a fatal error: nothing is
\* returned.
C10_ToolFailureIsFatal ==
    (Ended /\ (tool.launch # "ran" \/ tool.returncode # 0)) =>
        /\ Fatal
        /\ uroman_output = None
        /\ alignments = None

\* the i-th name carries the i-th returned alignment, and that alignment is
\* the one built from the i-th line the aligner printed
Positional ==
    /\ Len(alignments[1]) = Len(names)
    /\ \A i \in 1..Len(names) :
          /\ names[i].alignment = Some(alignments[1][i])
          /\ i <= Len(tool.lines)
          /\ alignments[1][i] = NewAlignment(tool.lines[i])

\* C11 as stated: a call of FastAligner that returns gives one alignment per
\* name, the i-th attached to the i-th name and parsed from the i-th line of
\* the aligner; when the aligner printed more or fewer lines than there are
\* names the call ends with the assertion.
C11_AlignmentsMatchNames ==
    (adapter = "fast_align" /\ Ended /\ tool.launch = "ran") =>
        IF Len(tool.lines) = Len(names)
        THEN call_pc = "returned" /\ Positional
        ELSE call_pc = "AssertionError"

\* C12 as stated: when the call of FastAligner has ended, however it ended,
\* the two temporary files exist exactly when preserve_raw_output is set.
C12_TempFilesRemovedOnEveryExit ==
    (adapter = "fast_align" /\ Ended) =>
        IF preserve_raw_output
        THEN tmp_files.alignment_train_data # None
             /\ tmp_files.fastalign_output # None
        ELSE tmp_files = NoFiles

(***************************************************************************)
(* Claims about the UnicodeAnalyzer.                                       *)
(***************************************************************************)
\* the positions of the characters of the word that the analyzer counts
Qualifying(self, word) ==
    {k \in 1..Len(maybe_strip(self, word)) :
        Counted(self, maybe_strip(self, word)[k])}

QualifyingIn(self, word, block) ==
    {k \in Qualifying(self, word) :
        blocks_of(maybe_strip(self, word)[k]) = Some(block)}

LastCall(method) == an_ret # None /\ an_ret[1].method = method

OwnResult(self, method) ==
    LET counter == unicode_blocks(an_cfg[self], an_word)
    IN CASE method = "unicode_blocks" -> counter
         [] method = "most_common_unicode_block" -> most_common_block_of(counter)
         [] method = "unicode_block_histogram" ->
                histogram_of(an_cfg[self], counter).value

\* C14: whatever the order of the calls of two analyzers on one word, a
\* call served from a cache is served from an entry made by a call of the
\* same analyzer, and what most_common_unicode_block and
\* unicode_block_histogram return is what the analyzer's own settings give;
\* unicode_blocks returns its own Counter, as counts or, once the histogram
\* was asked for, as the shares the histogram holds.
C14_CachePerAnalyzer ==
    an_ret # None =>
        LET r == an_ret[1]
        IN /\ r.hit # None => r.hit = Some(r.self)
           /\ r.method # "unicode_blocks" => r.value = OwnResult(r.self, r.method)
           /\ r.method = "unicode_blocks" =>
                 r.value \in {OwnResult(r.self, "unicode_blocks"),
                              OwnResult(r.self, "unicode_block_histogram")}

\* both analyzers hold an entry for the word " a" and the entries differ;
\* the last call was served from the cache
C14_Witness ==
    /\ an_memo
    /\ an_word = <<" ", "a">>
    /\ an_cfg[2].strip
    /\ an_ret # None
    /\ an_ret[1].method = "most_common_unicode_block"
    /\ an_ret[1].self = 2
    /\ an_ret[1].hit # None
    /\ an_ret[1].value = "BASIC_LATIN"
    /\ \E e \in an_cache.most_common_unicode_block :
          e.self = 1 /\ e.word = an_word /\ e.value = "SPACE"

(***************************************************************************)
(* Claims about the taggers and the vote aggregation.                      *)
(***************************************************************************)
VotesFor == {k \in 1..Len(tg_votes) : tg_votes[k] = Some(TRUE)}

VotesAgainst == {k \in 1..Len(tg_votes) : tg_votes[k] = Some(FALSE)}

NonAbstaining == SelectSeq(tg_votes, LAMBDA v : v # None)

TaggedAnomalous == tg_tagged # None /\ tg_tagged[1].anomalous = Some(TRUE)

\* C15: abstentions play no part; under "all" the name is tagged anomalous
\* exactly when no vote says not anomalous, under "any" exactly when some
\* vote says anomalous, under "majority_vote" exactly when more votes say
\* anomalous than not anomalous (a tie: not anomalous); otherwise it is
\* tagged not anomalous.  The votes anomalous, anomalous, not anomalous give
\* not anomalous, anomalous, anomalous.
C15_VoteAggregation ==
    tg_tagged # None =>
        /\ tg_tagged[1].anomalous \in {Some(TRUE), Some(FALSE)}
        /\ tg_method = "all" => (TaggedAnomalous <=> VotesAgainst = {})
        /\ tg_method = "any" => (TaggedAnomalous <=> VotesFor # {})
        /\ tg_method = "majority_vote" =>
              (TaggedAnomalous <=>
                   Cardinality(VotesFor) > Cardinality(VotesAgainst))
        /\ NonAbstaining = <<Some(TRUE), Some(TRUE), Some(FALSE)>> =>
              (TaggedAnomalous <=> tg_method # "all")

\* two taggers abstain, the other three vote anomalous, anomalous, not
\* anomalous, and the majority makes the name anomalous
C15_Witness ==
    /\ TaggedAnomalous
    /\ tg_method = "majority_vote"
    /\ Len(tg_votes) = 5
    /\ NonAbstaining = <<Some(TRUE), Some(TRUE), Some(FALSE)>>

\* what the tagger at some place of the ensemble voted
VoteOf(tagger) ==
    {tg_votes[k] : k \in {k \in 1..Len(tg_votes) : tg_taggers[k] = tagger}}

HasChar(text, chars) == \E k \in 1..Len(text) : text[k] \in chars

\* the name has an ideograph, a character of a block whose label begins
\* with CJK
NameHasCJK == HasChar(tg_name.text, {"U+4E2D"})

\* the name has a character of HIRAGANA or of KATAKANA
NameHasKana == HasChar(tg_name.text, {"U+3042", "U+30A2"})

\* Japanese, Chinese and its variants, Classical Chinese, Wu
Japanese == <<"j", "a">>

ChineseFamily ==
    { <<"z", "h">>, <<"z", "h", "-", "h", "a", "n", "s">>, <<"l", "z", "h">>,
      <<"w", "u", "u">> }

\* C17 as stated: for a name of a language of the family the CJKTagger
\* votes anomalous exactly when the name has no character of a CJK block,
\* with or without Kana.
C17_CJKAbsenceIsAnomalous ==
    (tg_tagged # None /\ tg_name.language \in ChineseFamily \cup {Japanese}) =>
        \A vote \in VoteOf("CJKTagger") : vote = Some(~NameHasCJK)

\* C18 as stated: the HiraganaKatakanaTagger abstains for every language
\* outside the family, codes such as "jam" and "zha" included; for Japanese
\* it votes anomalous exactly when the name has no Kana, for the other
\* languages of the family exactly when it has.
C18_KanaTaggerGatedByFamily ==
    tg_tagged # None =>
        \A vote \in VoteOf("HiraganaKatakanaTagger") :
            vote = IF tg_name.language = Japanese THEN Some(~NameHasKana)
                   ELSE IF tg_name.language \in ChineseFamily
                   THEN Some(NameHasKana)
                   ELSE None

(***************************************************************************)
(* Claims about the Corpus.                                                *)
(***************************************************************************)
\* the names split_names is to place: all of them, or those that are not
\* noise samples
ToPlace(with_noise_samples) ==
    SelectSeq(co_names, LAMBDA n : with_noise_samples \/ ~n.noise_sample)

\* C16: split_names places every name of the corpus (every name that is
\* not a noise sample when with_noise_samples is false) in exactly one of
\* the two lists: in "anomalous" when its flag is True, in "non_anomalous"
\* when it is False or None; no name is lost and none is added.
C16_SplitIsPartition ==
    co_split # None =>
        LET placed == ToPlace(co_split[1].with_noise_samples)
            split == co_split[1].split
        IN /\ split["anomalous"]
                 = SelectSeq(placed, LAMBDA n : n.anomalous = Some(TRUE))
           /\ split["non_anomalous"]
                 = SelectSeq(placed, LAMBDA n : n.anomalous \in {Some(FALSE), None})
           /\ Len(split["anomalous"]) + Len(split["non_anomalous"]) = Len(placed)

\* a name that abstained and a noise sample flagged anomalous: the first is
\* kept as not anomalous, the second is left out
C16_Witness ==
    /\ co_split # None
    /\ ~co_split[1].with_noise_samples
    /\ Len(co_names) = 2
    /\ co_names[1].anomalous = None /\ ~co_names[1].noise_sample
    /\ co_names[2].anomalous = Some(TRUE) /\ co_names[2].noise_sample
    /\ co_split[1].split["non_anomalous"] = <<co_names[1]>>
    /\ co_split[1].split["anomalous"] = <<>>

\* the names of an entry of the statistics
NamesOf(key) ==
    IF key = "global" THEN co_names
    ELSE SelectSeq(co_names, LAMBDA n : n.language = key)

CrossingsOf(key) ==
    SumSeq([k \in 1..Len(NamesOf(key)) |->
               NamesOf(key)[k].alignment[1].n_cross_alignments])

\* C19 as stated: in every entry of Corpus.stats, "global" and each
\* language, total_cross_alignments is the sum of n_cross_alignments over
\* the alignments of the entry's names and mean_cross_alignments is that
\* total over the number of names; every read gives these values.
C19_StatsTotalsAndMeans ==
    /\ co_stats # None =>
          \A key \in DOMAIN co_stats[1] :
              /\ co_stats[1][key].total_cross_alignments = CrossingsOf(key)
              /\ co_stats[1][key].mean_cross_alignments
                    = [num |-> CrossingsOf(key), den |-> Len(NamesOf(key))]
    /\ co_read # None =>
          /\ co_read[1].total_cross_alignments = CrossingsOf(co_read[1].key)
          /\ co_read[1].mean_cross_alignments
                = [num |-> CrossingsOf(co_read[1].key),
                   den |-> Len(NamesOf(co_read[1].key))]


(***************************************************************************)
(* C20: while the dump is read, a row that cannot be decoded or that lacks *)
(* a required field (id, labels) is skipped without aborting the run, and  *)
(* every skipped row is accounted for: at every point the number of rows   *)
(* read equals the number of records yielded plus n_decode_errors.         *)
(***************************************************************************)
RowsAccounted == du_pos = Len(du_yielded) + n_decode_errors

RunNotAborted == du_pc \in {"idle", "reading", "done"}

C20_RowsSkippedAndAccounted == RowsAccounted /\ RunNotAborted


(***************************************************************************)
(* C21: call_parallel keeps the places: for every list of strings, every   *)
(* chunksize, every number of workers and every order in which the         *)
(* workers end, the list returned is as long as the input, its i-th        *)
(* element is the romanization of the i-th string, and it is the list one  *)
(* call of self.call on the whole input returns.  The romanizer is one    *)
(* that can be started: with no uroman command there is no romanization.   *)
(***************************************************************************)
SequentialCall ==
    UniversalRomanizer_call(pm_strings, uroman_run(pm_strings, pm_launch))

C21_ParallelKeepsPlaces ==
    pm_pc = "returned" /\ pm_launch = "ran" =>
        /\ Len(pm_ret[1]) = Len(pm_strings)
        /\ \A i \in 1..Len(pm_strings) :
               pm_ret[1][i] = romanization(pm_strings[i])
        /\ SequentialCall.pc = "returned"
        /\ pm_ret = SequentialCall.output

\* three chunks of different strings, the second done before the first
C21_Witness ==
    /\ pm_pc = "returned"
    /\ pm_launch = "ran"
    /\ NChunks = 3
    /\ pm_finished[1] = 2
    /\ pm_strings[1] # pm_strings[2]
    /\ pm_strings[2] # pm_strings[3]


(***************************************************************************)
(* C22: after any sequence of applications of a name processor to a name   *)
(* (one processor applied twice, or the composed processor that strips     *)
(* parentheses and then reorders by edit distance), original_text is the   *)
(* text the name had before the first application, and is_unchanged is     *)
(* true exactly when the text now is that text.                            *)
(***************************************************************************)
C22_OriginalTextIsFirstText ==
    \A m \in Modes :
        n_calls[m] > 0 =>
            /\ original_text(ret[m][1]) = loaded.text
            /\ ret[m][1].is_unchanged = (ret[m][1].text = loaded.text)


(***************************************************************************)
(* C23: the stages of a Corpus can be switched on and off one by one and   *)
(* run in order: for each of the four settings of                          *)
(* find_best_token_permutation and align_with_english the construction     *)
(* completes; the names carry an alignment, and the corpus its stats,      *)
(* exactly when align_with_english is set; the texts differ from those     *)
(* passed in only if find_best_token_permutation is set; and with both set *)
(* the alignments are those of the normalized texts.                       *)
(***************************************************************************)
BuildCompletes == cb_pc \in {"idle", "building", "done"}

Aligned(name) == name.alignment # "None"

AlignedIffSet ==
    /\ \A k \in 1..Len(cb_names) :
           Aligned(cb_names[k]) <=> cb_flags.align_with_english
    /\ (cb_stats # None) <=> cb_flags.align_with_english
    /\ (cb_alignments # None) <=> cb_flags.align_with_english

TextsOf(ns) == [k \in 1..Len(ns) |-> ns[k].text]

TextsKeptUnlessPermuted ==
    ~cb_flags.find_best_token_permutation =>
        TextsOf(cb_names) = TextsOf(filter_names(cb_input))

AlignedOnNormalized ==
    cb_flags.find_best_token_permutation /\ cb_flags.align_with_english =>
        /\ TextsOf(cb_names) = TextsOf(filter_names(permuter(cb_flags, cb_input)))
        /\ \A k \in 1..Len(cb_names) :
               cb_names[k].alignment =
                   Some(NewAlignment(fast_align_line(cb_names[k])))

C23_StagesToggleInOrder ==
    /\ BuildCompletes
    /\ cb_pc = "done" =>
           AlignedIffSet /\ TextsKeptUnlessPermuted /\ AlignedOnNormalized

(***************************************************************************)
(* C26: the construction of a Corpus keeps the names passed in one for     *)
(* one: whatever the permuter, Corpus.names is as long as the list given   *)
(* and in its order, so that the i-th text can be written back to the i-th *)
(* row.                                                                    *)
(***************************************************************************)
C26_NamesKeptOneToOne ==
    cb_pc = "done" =>
        /\ Len(cb_names) = Len(cb_input)
        /\ \A k \in 1..Len(cb_names) :
               cb_names[k].english_text = cb_input[k].english_text


(***************************************************************************)
(* C24: in label-model mode the vote matrix of a language slice has one    *)
(* row per name and one column per tagger of the ensemble (incorrect       *)
(* block, missing block, distance, Kana, CJK); column j holds the votes of *)
(* tagger j, written 1 for anomalous, -1 for not anomalous and 0 for an    *)
(* abstention, and no column repeats the votes of another tagger.          *)
(***************************************************************************)
VoteNumber(tagger, name) ==
    LET vote == classify(tagger, name, vm_env)
    IN CASE vote = None -> 0
         [] vote = Some(TRUE) -> 1
         [] vote = Some(FALSE) -> -1

C24_VoteMatrixColumns ==
    noisy_votes # None =>
        /\ Len(noisy_votes[1]) = Len(vm_names)
        /\ \A i \in 1..Len(vm_names) :
               /\ Len(noisy_votes[1][i]) = Len(Taggers)
               /\ \A j \in 1..Len(Taggers) :
                      noisy_votes[1][i][j] = VoteNumber(Taggers[j], vm_names[i])


(***************************************************************************)
(* C25: a WikidataMongoIngesterWorker ingests exactly the lines start_at,  *)
(* start_at + read_every, start_at + 2 * read_every, ... of its input, up  *)
(* to max_docs: a decode error on one of them adds one to n_decode_errors  *)
(* and skips that line only, and every later line of the schedule is still *)
(* read and ingested.                                                      *)
(***************************************************************************)
Scheduled(i) ==
    {l \in 1..Len(ig_lines) :
        /\ ~past_max_docs(ig_workers[i], l)
        /\ \E k \in 0..Len(ig_lines) :
               l = ig_workers[i].start_at + k * ig_workers[i].read_every}

InsertedBy(i) ==
    {ig_db[k].line : k \in {j \in 1..Len(ig_db) : ig_db[j].worker = i}}

C25_ScheduleSurvivesDecodeErrors ==
    \A i \in DOMAIN ig_workers :
        ig_pc[i] = "done" =>
            /\ InsertedBy(i) = {l \in Scheduled(i) : ig_lines[l] # None}
            /\ ig_workers[i].n_decode_errors =
                   Cardinality({l \in Scheduled(i) : ig_lines[l] = None})

(***************************************************************************)
(* C30: with N workers set up with start_at = i and read_every = N for     *)
(* i = 1..N and run in any interleaving over one input file, every line is *)
(* ingested by exactly one worker: no line is inserted twice, and when no  *)
(* line fails to give a record none is left out.                           *)
(***************************************************************************)
SetUpByMain ==
    /\ ig_workers # <<>>
    /\ \A i \in DOMAIN ig_workers :
           LET built == main_workers(Len(ig_workers), 1)[i]
           IN /\ ig_workers[i].start_at = built.start_at
              /\ ig_workers[i].read_every = built.read_every
              /\ ig_workers[i].max_docs = built.max_docs

AllRecords ==
    \A l \in 1..Len(ig_lines) :
        /\ orjson_loads(ig_lines[l]).raised = ""
        /\ WikidataRecord(orjson_loads(ig_lines[l]).doc).raised = ""

AllDone == \A i \in DOMAIN ig_workers : ig_pc[i] = "done"

C27_NamesUseSliceAnalyzer ==
    \A k \in 1..Len(ts_names) :
        LET self == slice_analyzer(ts_strip)
        IN /\ name_most_common_unicode_block(ts_names[k]) =
                  most_common_block_of(unicode_blocks(self, ts_texts[k]))
           /\ name_unicode_block_histogram(ts_names[k]) =
                  histogram_of(self, unicode_blocks(self, ts_texts[k])).value


(***************************************************************************)
(* C28: FastAligner.__call__ changes no name when it fails: after a call   *)
(* that ended with the count-mismatch assertion or with a tool failure,    *)
(* every input name has the alignment it had before the call (none, for    *)
(* names fresh from the loader).                                           *)
(***************************************************************************)
C28_FailedAlignerChangesNoName ==
    (adapter = "fast_align" /\ call_pc \in {"AssertionError", "ValueError"})
        => \A k \in 1..Len(names) : names[k].alignment = "None"


(***************************************************************************)
(* C29: with the methods memoized and normalize_histogram set, asking for  *)
(* the histogram of a word does not change what unicode_blocks returns for *)
(* it: whatever calls were made before on the analyzers, unicode_blocks    *)
(* returns the count of characters per block and unicode_block_histogram   *)
(* returns the shares.                                                     *)
(***************************************************************************)
C29_HistogramLeavesBlocksAlone ==
    (an_memo /\ an_ret # None /\ an_cfg[an_ret[1].self].normalize_histogram)
        => LET r == an_ret[1]
           IN r.method \in {"unicode_blocks", "unicode_block_histogram"}
                 => r.value = OwnResult(r.self, r.method)

=============================================================================
